---- MODULE Spec2Model ----
(***************************************************************************)
(* Goal-driven research controller of deep_research_py                     *)
(* (src/deep_research_py/deep_research.py) and its collaborators.          *)
(*                                                                         *)
(* Text is modelled as a sequence of tokens (a string is a one-token       *)
(* sequence, a formatted string the sequence of its parts), JSON mappings  *)
(* as functions from keys to values, scores as tenths (0.8 is 8).  A call  *)
(* returns Ret(v) or Raised; a caller without a handler propagates Raised. *)
(* The completion layer returns mappings whose present fields have the     *)
(* type of the call site's schema (spec section 6), an empty mapping, or   *)
(* raises.                                                                 *)
(***************************************************************************)
EXTENDS Integers, Sequences, FiniteSets, TLC

\* ------------------------------------------------------------------ bounds
\* Largest breadth / concurrency input of a wide session.
MaxBreadth == 2
MaxConcurrency == 2
\* Cap on the length of each accumulator: collaborator outputs that would
\* make all_learnings / all_urls longer are not drawn.
MaxAccum == 3
\* Largest num_queries of a planner call applied on its own.
MaxQueries == 3
\* Largest number of follow-up questions / answers given to the goal builder.
MaxPairs == 5
\* Largest num_learnings / num_follow_up_questions of an extraction applied
\* on its own, next to the controller's own 5 and 2.
MaxTake == 3

\* ------------------------------------------------------- program constants
MinEpochs == 1
MaxEpochsCap == 5
ApiConcurrency == 1
NumLearnings == 5
NumFollowUps == 2
RecentLearnings == 10
PlannerLearnings == 5
FallbackScore == 5
DefaultScore == 0
\* The 0.8 threshold of the goal-achieved rule (prompt.py, field 5).
GoalThreshold == 8

\* ----------------------------------------------------------------- helpers
Ret(v) == [raised |-> FALSE, value |-> v]
Raised == [raised |-> TRUE, value |-> <<>>]

EmptyMapping == [k \in {} |-> <<>>]
\* dict.get(key, default)
Get(m, k, d) == IF k \in DOMAIN m THEN m[k] ELSE d

Min(a, b) == IF a <= b THEN a ELSE b
Max(a, b) == IF a >= b THEN a ELSE b

InSeq(x, s) == \E i \in 1..Len(s) : s[i] = x

\* s[:n] for n >= 0
Prefix(s, n) == SubSeq(s, 1, Min(n, Len(s)))
\* s[-n:] for n >= 1
Suffix(s, n) == SubSeq(s, Max(1, Len(s) - n + 1), Len(s))

RECURSIVE Concat(_)
Concat(ss) == IF ss = <<>> THEN <<>> ELSE Head(ss) \o Concat(Tail(ss))

\* "\n".join(lines): the empty join is the empty string, a single empty line.
JoinLines(lines) == IF lines = <<>> THEN << <<>> >> ELSE lines

RECURSIVE DictFromKeysFrom(_, _)
DictFromKeysFrom(s, acc) ==
    IF s = <<>> THEN acc
    ELSE DictFromKeysFrom(Tail(s),
                          IF InSeq(Head(s), acc) THEN acc ELSE Append(acc, Head(s)))

\* Variant: the accumulated list is returned as it is.
NoDedup(s) == s

\* list(dict.fromkeys(s)): insertion-ordered keys, a key enters once.
DictFromKeys(s) == DictFromKeysFrom(s, <<>>)

\* ---------------------------------------------------------- completion layer
\* A response text is a sequence of segments separated by white space:
\*   Obj(m)    the text of the JSON object m, from its '{' to its '}'
\*   Open(m)   the text of m cut before its closing '}'
\*   Val(v)    the text of a JSON value that is not an object and holds no brace
\*   JsonFence the line ```json, Fence the line ```
\*   Prose     a sentence: with or without a braced word ("{x}") inside, and
\*             with or without a passage of more than 100 characters after the
\*             words RESEARCH REPORT
\*   Broken    an object text cut inside an array
\*   CloseBrace the '}' that clean_json_string appends
\* String values inside objects are shorter than 100 characters and a
\* reportText / reportMarkdown key is the last key of its object.
JObject(m) == [json |-> "object", fields |-> m]
\* A parsed value that is not an object: kind is "array", "number" or "null".
JOther(kind) == [json |-> kind]

Obj(m) == [k |-> "obj", v |-> m]
Open(m) == [k |-> "open", v |-> m]
Val(v) == [k |-> "val", v |-> v]
JsonFence == [k |-> "fence", tag |-> "json"]
Fence == [k |-> "fence", tag |-> ""]
Prose(braces, report) == [k |-> "prose", braces |-> braces, report |-> report]
Broken == [k |-> "broken"]
CloseBrace == [k |-> "close"]

\* A quote character inside a string value; the text writes it \".
Quote == "\""

\* Whether a segment holds a '{', holds a '}', starts with '{', ends with '}'.
Braces(seg) ==
    [has_open  |-> seg.k \in {"obj", "open", "broken"} \/ (seg.k = "prose" /\ seg.braces),
     has_close |-> seg.k \in {"obj", "close"} \/ (seg.k = "prose" /\ seg.braces),
     starts    |-> seg.k \in {"obj", "open", "broken"},
     ends      |-> seg.k \in {"obj", "close"}]

\* json.loads: Raised stands for json.JSONDecodeError.
json_loads(text) ==
    IF Len(text) = 1 /\ text[1].k = "obj" THEN Ret(JObject(text[1].v))
    ELSE IF Len(text) = 1 /\ text[1].k = "val" THEN Ret(text[1].v)
    ELSE IF Len(text) = 2 /\ text[1].k = "open" /\ text[2].k = "close"
         THEN Ret(JObject(text[1].v))
    ELSE Raised

clean_json_string(json_str) ==
    LET unfenced == IF json_str # <<>> /\ json_str[1] = JsonFence
                    THEN Tail(json_str) ELSE json_str
        untailed == IF unfenced # <<>> /\ unfenced[Len(unfenced)].k = "fence"
                       /\ unfenced[Len(unfenced)].tag = ""
                    THEN SubSeq(unfenced, 1, Len(unfenced) - 1) ELSE unfenced
    IN  IF untailed # <<>> /\ Braces(untailed[Len(untailed)]).ends
        THEN untailed
        ELSE Append(untailed, CloseBrace)

\* re.search(r'```json\s*(\{.*?\})\s*```', ...): the leftmost ```json that is
\* followed by a '{' and, later, by a '}' right before a fence; the group
\* ends at the first such '}'.  <<>> when there is no match.
markdown_group(text) ==
    LET matches == { <<i, j>> \in (1..Len(text)) \X (1..Len(text)) :
                       /\ text[i] = JsonFence
                       /\ i < j /\ j < Len(text)
                       /\ Braces(text[i + 1]).starts
                       /\ Braces(text[j]).ends
                       /\ text[j + 1].k = "fence" }
    IN  IF matches = {} THEN <<>>
        ELSE LET i == CHOOSE a \in {m[1] : m \in matches} :
                          \A b \in {m[1] : m \in matches} : a <= b
                 j == CHOOSE a \in {m[2] : m \in {n \in matches : n[1] = i}} :
                          \A b \in {m[2] : m \in {n \in matches : n[1] = i}} : a <= b
             IN  SubSeq(text, i + 1, j)

\* response_text[start:end + 1] for the first '{' and the last '}'; <<>>
\* when the test start != -1 and end > start fails.  A slice that starts or
\* ends inside a sentence keeps that sentence's segment.
brace_content(text) ==
    LET opens  == {i \in 1..Len(text) : Braces(text[i]).has_open}
        closes == {i \in 1..Len(text) : Braces(text[i]).has_close}
    IN  IF opens = {} \/ closes = {} THEN <<>>
        ELSE LET start == CHOOSE a \in opens : \A b \in opens : a <= b
                 end   == CHOOSE a \in closes : \A b \in closes : a >= b
             IN  IF end < start THEN <<>> ELSE SubSeq(text, start, end)

\* re.sub(r'("reportText"\s*:\s*")\\"', r'\1', ...), the same for
\* reportMarkdown: a \" that opens the value is removed from the text.
unquote_field(m, field) ==
    IF field \in DOMAIN m /\ m[field] # <<>> /\ m[field][1] # <<>>
       /\ m[field][1][1] = Quote
    THEN [m EXCEPT ![field] = <<Tail(m[field][1])>> \o Tail(m[field])]
    ELSE m

fix_report_quotes(content) ==
    [i \in 1..Len(content) |->
        IF content[i].k \in {"obj", "open"}
        THEN [content[i] EXCEPT !.v = unquote_field(unquote_field(@, "reportText"),
                                                    "reportMarkdown")]
        ELSE content[i]]

Restrict(m, keys) == [x \in (DOMAIN m) \cap keys |-> m[x]]

\* Strategy 5: the fields the patterns find in the text, which holds at most
\* one object text.  A report field is found when a '}' follows its value
\* or when its value ends the text; otherwise the array fields are looked
\* for.
manual_extraction(text) ==
    LET objs == {i \in 1..Len(text) : text[i].k \in {"obj", "open"}}
        report_field_found(txt, i, field) ==
            /\ field \in DOMAIN txt[i].v
            /\ txt[i].k = "obj" \/ i = Len(txt)
    IN  IF objs = {} THEN EmptyMapping
        ELSE LET i == CHOOSE a \in objs : \A b \in objs : a <= b
             IN  IF report_field_found(text, i, "reportText")
                 THEN Restrict(text[i].v, {"reportText"})
                 ELSE IF report_field_found(text, i, "reportMarkdown")
                 THEN Restrict(text[i].v, {"reportMarkdown"})
                 ELSE Restrict(text[i].v, {"learnings", "followUpQuestions", "queries",
                                              "questions"})

\* Strategy 6: the passage after RESEARCH REPORT, when longer than 100
\* characters.
text_extraction(text) ==
    LET found == {i \in 1..Len(text) : text[i].k = "prose" /\ text[i].report # <<>>}
    IN  IF found = {} THEN EmptyMapping
        ELSE [reportText |-> text[CHOOSE a \in found : \A b \in found : a <= b].report]

\* A value returned by the strategy numbered n (7: the final fallback).
Parsed(v, n) == [raised |-> FALSE, value |-> v, strategy |-> n]

extract_json_from_response(response_text) ==
    LET direct  == json_loads(response_text)
        cleaned == json_loads(clean_json_string(response_text))
        group   == markdown_group(response_text)
        fenced  == json_loads(group)
        slice   == brace_content(response_text)
        braced  == json_loads(fix_report_quotes(slice))
        manual  == manual_extraction(response_text)
        report  == text_extraction(response_text)
    IN  IF ~direct.raised THEN Parsed(direct.value, 1)
        ELSE IF ~cleaned.raised THEN Parsed(cleaned.value, 2)
        ELSE IF group # <<>> /\ ~fenced.raised THEN Parsed(fenced.value, 3)
        ELSE IF slice # <<>> /\ ~braced.raised THEN Parsed(braced.value, 4)
        ELSE IF manual # EmptyMapping THEN Parsed(JObject(manual), 5)
        ELSE IF report # EmptyMapping THEN Parsed(JObject(report), 6)
        ELSE Parsed(JObject(EmptyMapping), 7)

\* What one API call of get_client_response yields: a message content, no
\* content (None), or an exception.  An exception carries whether its text
\* holds "429", whether it holds "rate" in any case, and whether it is a
\* rate-limit error of the service.
Content(text) ==
    [k |-> "content", text |-> text, has429 |-> FALSE, mentions_rate |-> FALSE,
     rate_limit |-> FALSE]
ApiError(has429, mentions_rate, rate_limit) ==
    [k |-> "error", text |-> <<>>, has429 |-> has429, mentions_rate |-> mentions_rate,
     rate_limit |-> rate_limit]

\* "429" in str(e) or "rate" in str(e).lower()
is_rate_limit(e) == e.has429 \/ e.mentions_rate

\* Variant: a wait that grows by one second per attempt.
wait_time_linear(attempt) == attempt + 1

\* wait_time = 2 ** attempt
wait_time(attempt) == 2 ^ attempt

\* {"error": "Max retries exceeded"}
ExhaustedResponse == [error |-> <<"Max", "retries", "exceeded">>]

\* -------------------------------------------------------- retrieval service
\* What one requests.get of RequestsScraper.scrape yields: a response with
\* its status and the text extracted from its page, a timeout, or another
\* exception (raised by the request or by the extraction).
PageResponse(status_code, text) ==
    [k |-> "response", status_code |-> status_code, text |-> text]
RequestFailure(k) == [k |-> k, status_code |-> 0, text |-> ""]

ScrapedContent(url, text, status_code) ==
    [url |-> url, text |-> text, status_code |-> status_code]

\* The loop of RequestsScraper.scrape from pass attempt on; outcomes holds
\* one outcome per pass, max_retries in all.  A status >= 400 goes to the
\* next pass only when a pass is left.
RECURSIVE scrape_from(_, _, _)
scrape_from(url, outcomes, attempt) ==
    IF attempt >= Len(outcomes)
    THEN ScrapedContent(url, "", 0)
    ELSE LET o == outcomes[attempt + 1]
         IN  IF o.k = "response"
                /\ ~(o.status_code >= 400 /\ attempt < Len(outcomes) - 1)
             THEN ScrapedContent(url, o.text, o.status_code)
             ELSE scrape_from(url, outcomes, attempt + 1)

scrape(url, outcomes) == scrape_from(url, outcomes, 0)

SearchResult(url, title) == [url |-> url, title |-> title]

\* SearchAndScrapeManager.search_and_scrape with scrape_all: the search
\* results and, per result URL, what the scraper returned for it.  web maps
\* a URL to the outcomes of its requests.
search_and_scrape(search_results, web) ==
    [search_results |-> search_results,
     scraped_contents |->
        [u \in {search_results[i].url : i \in 1..Len(search_results)} |->
            scrape(u, web[u])]]

\* The items SearchService.search builds from the manager's data.
formatted_data(scraped_data) ==
    [i \in 1..Len(scraped_data.search_results) |->
        LET result == scraped_data.search_results[i]
        IN  [url |-> result.url,
             title |-> result.title,
             content |-> IF result.url \in DOMAIN scraped_data.scraped_contents
                         THEN scraped_data.scraped_contents[result.url].text
                         ELSE ""]]

\* SearchService.search on the manager path, save_content left off; raises:
\* the manager raised.
search(search_results, web, raises) ==
    IF raises THEN [data |-> <<>>]
    ELSE [data |-> formatted_data(search_and_scrape(search_results, web))]

\* ------------------------------------------------------------- data model
UserGoal(o, c, q) ==
    [primary_objective |-> o, success_criteria |-> c, specific_questions |-> q]

SerpQuery(q, g) == [query |-> q, research_goal |-> g]

Item(u, c) == [url |-> u, content |-> c]

\* Content that tiktoken's encoder rejects (text holding a special token).
SpecialContent == "<|endoftext|>"

\* --------------------------------------------------------------- GoalBuilder
FallbackGoal(initial_query) ==
    UserGoal(initial_query,
             <<"Find comprehensive and authoritative information">>,
             <<"What are the key findings and latest developments?">>)

\* deep_research's goal when no follow-up Q&A is given.
TrivialGoal(query) ==
    UserGoal(query,
             <<"Find comprehensive information about the topic">>,
             <<"What are the key findings and latest developments?">>)

\* Variant: one pair per question, a missing answer read as empty.
ZipQuestions(qs, as) ==
    [i \in 1..Len(qs) |-> <<qs[i], IF i <= Len(as) THEN as[i] ELSE "">>]

\* zip(follow_up_questions, follow_up_answers)
Zip(qs, as) == [i \in 1..Min(Len(qs), Len(as)) |-> <<qs[i], as[i]>>]

\* "\n".join(f"Q: {q}\nA: {a}" for q, a in zip(...)), as lines.
qa_pairs(follow_up_questions, follow_up_answers) ==
    LET pairs == Zip(follow_up_questions, follow_up_answers)
    IN  JoinLines(Concat([i \in 1..Len(pairs) |->
                            << <<"Q: ", pairs[i][1]>>, <<"A: ", pairs[i][2]>> >>]))

\* enhanced_goal_generation_prompt(initial_query, qa_pairs): its variable parts.
goal_prompt(initial_query, follow_up_answers, follow_up_questions) ==
    [initial_query |-> initial_query,
     qa_pairs |-> qa_pairs(follow_up_questions, follow_up_answers)]

\* Variant: the handler lets the failure out.
generate_user_goal_unguarded(initial_query, follow_up_answers, follow_up_questions, completion) ==
    IF completion.raised
    THEN Raised
    ELSE Ret(UserGoal(Get(completion.value, "primary_objective", <<>>),
                      Get(completion.value, "success_criteria", <<>>),
                      Get(completion.value, "specific_questions", <<>>)))

generate_user_goal(initial_query, follow_up_answers, follow_up_questions, completion) ==
    IF completion.raised
    THEN Ret(FallbackGoal(initial_query))
    ELSE Ret(UserGoal(Get(completion.value, "primary_objective", <<>>),
                      Get(completion.value, "success_criteria", <<>>),
                      Get(completion.value, "specific_questions", <<>>)))

\* ------------------------------------------------------------- GoalEvaluator
\* Variant: the fallback reports the goal achieved.
FallbackEvaluationAchieved ==
    [alignment_score |-> FallbackScore,
     criteria_met |-> <<>>,
     questions_answered |-> <<>>,
     missing_aspects |-> <<"Unable to evaluate due to processing error">>,
     goal_achieved |-> TRUE,
     continue_research |-> TRUE,
     next_research_directions |-> <<"Continue general research with broader queries">>]

FallbackEvaluation ==
    [alignment_score |-> FallbackScore,
     criteria_met |-> <<>>,
     questions_answered |-> <<>>,
     missing_aspects |-> <<"Unable to evaluate due to processing error">>,
     goal_achieved |-> FALSE,
     continue_research |-> TRUE,
     next_research_directions |-> <<"Continue general research with broader queries">>]

evaluate_goal_alignment(user_goal, current_learnings, epoch, completion) ==
    IF completion.raised
    THEN Ret(FallbackEvaluation)
    ELSE Ret([alignment_score |-> Get(completion.value, "alignment_score", DefaultScore),
              criteria_met |-> Get(completion.value, "criteria_met", <<>>),
              questions_answered |-> Get(completion.value, "questions_answered", <<>>),
              missing_aspects |-> Get(completion.value, "missing_aspects", <<>>),
              goal_achieved |-> Get(completion.value, "goal_achieved", FALSE),
              continue_research |-> Get(completion.value, "continue_research", TRUE),
              next_research_directions |->
                  Get(completion.value, "next_research_directions", <<>>)])

\* -------------------------------------------------------------- QueryPlanner
\* Variant: the fallback names a generic query instead of the context.
FallbackQueryGeneric(query) == SerpQuery(<<"general">>, "Comprehensive research on the topic")

FallbackQuery(query) == SerpQuery(query, "Comprehensive research on the topic")

\* SerpQuery(**q) accepts exactly the keys query and research_goal.
WellFormedQuery(q) == DOMAIN q = {"query", "research_goal"}

\* ' '.join(learnings[-5:]) when learnings is non-empty, else None (<<>>).
recent_learnings(learnings) ==
    IF learnings = <<>> THEN <<>> ELSE Suffix(learnings, PlannerLearnings)

\* Variant: no handler around the completion call.
generate_serp_queries_unguarded(query, num_queries, learnings, completion) ==
    IF completion.raised
    THEN Raised
    ELSE Ret(Prefix(Get(completion.value, "queries", <<>>), num_queries))

\* Variant: the slice keeps the last num_queries queries.
generate_serp_queries_last(query, num_queries, learnings, completion) ==
    IF completion.raised
    THEN Ret(<<FallbackQuery(query)>>)
    ELSE LET queries == Get(completion.value, "queries", <<>>)
         IN  IF \E i \in 1..Len(queries) : ~WellFormedQuery(queries[i])
             THEN Ret(<<FallbackQuery(query)>>)
             ELSE Ret(IF num_queries = 0 \/ queries = <<>> THEN <<>>
                      ELSE Suffix(queries, num_queries))

generate_serp_queries(query, num_queries, learnings, completion) ==
    IF completion.raised
    THEN Ret(<<FallbackQuery(query)>>)
    ELSE LET queries == Get(completion.value, "queries", <<>>)
         IN  IF \E i \in 1..Len(queries) : ~WellFormedQuery(queries[i])
             THEN Ret(<<FallbackQuery(query)>>)
             ELSE Ret(Prefix(queries, num_queries))

\* ---------------------------------------------------------- LearningExtractor
\* encoder.encode inside trim_prompt raises on text holding a special token.
TrimRaises(content) == content = SpecialContent

\* The usable contents of a search result (items with non-empty content),
\* each passed through trim_prompt.
extraction_contents(search_result) ==
    LET idx == {i \in 1..Len(search_result) : search_result[i].content # ""}
    IN  IF \E i \in idx : TrimRaises(search_result[i].content)
        THEN Raised
        ELSE Ret(SelectSeq([i \in 1..Len(search_result) |-> search_result[i].content],
                           LAMBDA c : c # ""))

EmptyExtraction == [learnings |-> <<>>, followUpQuestions |-> <<>>]

\* Variant: the model's lists are returned whole.
process_serp_result_untruncated(num_learnings, num_follow_up_questions, completion) ==
    IF completion.raised
    THEN Ret(EmptyExtraction)
    ELSE Ret([learnings |-> Get(completion.value, "learnings", <<>>),
              followUpQuestions |-> Get(completion.value, "followUpQuestions", <<>>)])

process_serp_result(num_learnings, num_follow_up_questions, completion) ==
    IF completion.raised
    THEN Ret(EmptyExtraction)
    ELSE Ret([learnings |-> Prefix(Get(completion.value, "learnings", <<>>), num_learnings),
              followUpQuestions |->
                  Prefix(Get(completion.value, "followUpQuestions", <<>>),
                         num_follow_up_questions)])

\* item.get("url") for the items with a non-empty url
new_urls(search_result) ==
    SelectSeq([i \in 1..Len(search_result) |-> search_result[i].url],
              LAMBDA u : u # "")

EmptyOutcome == [learnings |-> <<>>, urls |-> <<>>]

\* --------------------------------------------------------------- ReportWriter
\* Text as lines; a line is a sequence of tokens.
UrlLines(visited_urls) == [i \in 1..Len(visited_urls) |-> <<"- ", visited_urls[i]>>]

\* a + b on texts: the last line of a continues with the first line of b.
TextCat(a, b) ==
    SubSeq(a, 1, Len(a) - 1) \o << a[Len(a)] \o b[1] >> \o Tail(b)

\* Variant: every URL is listed once.
urls_section_unique(visited_urls) ==
    TextCat(<< <<>>, <<>>, <<"SOURCES">>, <<>>, <<>> >>,
            JoinLines(UrlLines(DictFromKeys(visited_urls))))

\* "\n\nSOURCES\n\n" + "\n".join(f"- {url}" ...)
urls_section(visited_urls) ==
    TextCat(<< <<>>, <<>>, <<"SOURCES">>, <<>>, <<>> >>, JoinLines(UrlLines(visited_urls)))

LearningLines(learnings) == [i \in 1..Len(learnings) |-> <<"- ", learnings[i]>>]

FallbackSection(title, learnings) ==
    TextCat(<< <<>>, <<>>, <<title>>, <<>>, <<>> >>, JoinLines(LearningLines(learnings)))

fallback_report(prompt, learnings, visited_urls) ==
    LET head  == << <<"COMPREHENSIVE RESEARCH ANALYSIS">>, <<>>,
                    <<"Title: Strategic Analysis of ">> \o prompt, <<>>,
                    <<"EXECUTIVE SUMMARY">>, <<>>,
                    <<"INTRODUCTION">>, <<>>,
                    <<"DETAILED FINDINGS AND ANALYSIS">>, <<>>,
                    <<"Primary Research Insights">>, <<>>, <<>> >>
        part1 == TextCat(head, JoinLines(LearningLines(SubSeq(learnings, 1, Min(10, Len(learnings))))))
        part2 == IF Len(learnings) > 10
                 THEN TextCat(part1, FallbackSection("Strategic Developments and Trends",
                                  SubSeq(learnings, 11, Min(20, Len(learnings)))))
                 ELSE part1
        part3 == IF Len(learnings) > 20
                 THEN TextCat(part2, FallbackSection("Implementation and Practical Applications",
                                  SubSeq(learnings, 21, Min(30, Len(learnings)))))
                 ELSE part2
        part4 == IF Len(learnings) > 30
                 THEN TextCat(part3, FallbackSection("Additional Research Findings",
                                  SubSeq(learnings, 31, Len(learnings))))
                 ELSE part3
    IN  TextCat(part4, << <<>>, <<>>, <<"SYNTHESIS AND CROSS-CUTTING ANALYSIS">>, <<>>,
                          <<"IMPLICATIONS AND RECOMMENDATIONS">>, <<>>,
                          <<"CONCLUSIONS">>, <<>>, <<>> >>)

\* Variant: the fallback text is returned without the sources.
write_final_report_bare(prompt, learnings, visited_urls, completion) ==
    IF completion.raised
    THEN Ret(fallback_report(prompt, learnings, visited_urls))
    ELSE LET text   == Get(completion.value, "reportText", << <<>> >>)
             report == IF text # << <<>> >> THEN text
                       ELSE Get(completion.value, "reportMarkdown", << <<>> >>)
         IN  Ret(TextCat(report, urls_section(visited_urls)))

write_final_report(prompt, learnings, visited_urls, completion) ==
    IF completion.raised
    THEN Ret(TextCat(fallback_report(prompt, learnings, visited_urls),
                     urls_section(visited_urls)))
    ELSE LET text   == Get(completion.value, "reportText", << <<>> >>)
             report == IF text # << <<>> >> THEN text
                       ELSE Get(completion.value, "reportMarkdown", << <<>> >>)
         IN  Ret(TextCat(report, urls_section(visited_urls)))

\* ------------------------------------------------------------------ prompts
\* enhanced_serp_query_prompt(query, num_queries, recent_learnings)
planner_prompt(query, num_queries, learnings) ==
    [query |-> query, num_queries |-> num_queries, learnings |-> recent_learnings(learnings)]

\* enhanced_goal_alignment_prompt(user_goal, learnings_text, epoch)
alignment_prompt(user_goal, current_learnings, epoch) ==
    [user_goal |-> user_goal, current_learnings |-> JoinLines(LearningLines(current_learnings)),
     epoch |-> epoch]

\* enhanced_report_generation_prompt(prompt, learnings_string)
report_prompt(prompt, learnings) ==
    [prompt |-> prompt,
     learnings_string |->
        JoinLines(Concat([i \in 1..Len(learnings) |->
                            << <<"<learning>">>, <<learnings[i]>>, <<"</learning>">> >>]))]

\* ------------------------------------------------------------ deep_research
\* Variant: the docstring's "depth + 1" before the clamp.
ClampDepthPlusOne(depth) == Min(Max(depth + 1, MinEpochs), MaxEpochsCap)

\* min(max(depth, 1), 5)
ClampDepth(depth) == Min(Max(depth, MinEpochs), MaxEpochsCap)

\* Variant: the test admits one more epoch.
LoopContinuesInclusive(e, m, achieved) == e <= m /\ ~achieved

\* while epoch < max_epochs and not goal_achieved
LoopContinues(e, m, achieved) == e < m /\ ~achieved

\* Variant: every epoch plans from the primary objective.
FirstEpochAlways(e) == TRUE

\* if epoch == 1
FirstEpoch(e) == e = 1

\* Variant: the controller also stops when the evaluation advises against
\* continuing.
GoalAchievedOrAdvisedStop(ev) == ev.goal_achieved \/ ~ev.continue_research

\* Variant: the controller decides from the score instead of the flag.
GoalAchievedByScore(ev) == ev.alignment_score >= GoalThreshold

\* goal_achieved = evaluation["goal_achieved"]
GoalAchievedOf(ev) == ev.goal_achieved

\* ', '.join(items)
RECURSIVE JoinComma(_)
JoinComma(items) ==
    IF items = <<>> THEN <<>>
    ELSE IF Len(items) = 1 THEN <<items[1]>>
    ELSE <<items[1], ", ">> \o JoinComma(Tail(items))

\* The planning context of an epoch >= 2.
GapContext(user_goal, ev) ==
    <<"Primary Goal: ">> \o user_goal.primary_objective
    \o <<"Missing Aspects: ">> \o JoinComma(ev.missing_aspects)
    \o <<"Next Research Directions: ">> \o JoinComma(ev.next_research_directions)

\* Variant: the score is never read from the evaluation.
ResearchResultUnscored(learnings, urls, ev, e, achieved) ==
    [learnings |-> DictFromKeys(learnings),
     visited_urls |-> DictFromKeys(urls),
     goal_alignment_score |-> DefaultScore,
     epochs_completed |-> e,
     goal_achieved |-> achieved]

\* The ResearchResult assembled after the loop.
ResearchResult(learnings, urls, ev, e, achieved) ==
    [learnings |-> DictFromKeys(learnings),
     visited_urls |-> DictFromKeys(urls),
     goal_alignment_score |-> IF ev = <<>> THEN DefaultScore ELSE ev[1].alignment_score,
     epochs_completed |-> e,
     goal_achieved |-> achieved]

\* ------------------------------------------------------ collaborator outputs
Topic == <<"topic">>

NoQA == [questions |-> <<>>, answers |-> <<>>]

Session(d, b, c, qa) ==
    [query |-> Topic, depth |-> d, breadth |-> b, concurrency |-> c,
     follow_up_questions |-> qa.questions, follow_up_answers |-> qa.answers]

\* Depth inputs below, at, inside and above the clamp's range.
\* Deep sessions (every depth input, one query per epoch), wide sessions
\* (one epoch, every breadth and concurrency), two-epoch sessions with two
\* queries per epoch, and sessions with follow-up Q&A.
Sessions ==
    { Session(d, 1, 1, NoQA) : d \in {0 - 2, 0, 1, 3, 6} }
    \cup { Session(1, b, c, NoQA) : b \in 1..MaxBreadth, c \in 1..MaxConcurrency }
    \cup { Session(2, 2, c, NoQA) : c \in 1..2 }
    \cup { Session(1, 1, 1, qa) : qa \in
            { [questions |-> <<"q1", "q2", "q3">>, answers |-> <<"a1", "a2">>],
              [questions |-> <<"q1">>, answers |-> <<>>],
              [questions |-> <<>>, answers |-> <<"a1">>] } }

Goals == { TrivialGoal(Topic), FallbackGoal(Topic), UserGoal(<<"objective">>, <<"c1", "c2">>, <<"s1">>) }

GoalCompletions ==
    { Raised, Ret(EmptyMapping),
      Ret([primary_objective |-> <<"objective">>,
           success_criteria |-> <<"c1", "c2">>,
           specific_questions |-> <<"s1">>]) }

\* Evaluations a model may emit for a goal: consistent or not with the rule
\* stated in the prompt.
EvalCompletions(goal) ==
    { Raised, Ret(EmptyMapping),
      Ret([alignment_score |-> 9, criteria_met |-> goal.success_criteria,
           questions_answered |-> goal.specific_questions, missing_aspects |-> <<>>,
           goal_achieved |-> TRUE, continue_research |-> FALSE,
           next_research_directions |-> <<>>]),
      Ret([alignment_score |-> 6, criteria_met |-> <<>>,
           questions_answered |-> goal.specific_questions,
           missing_aspects |-> <<"m1", "m2">>,
           goal_achieved |-> FALSE, continue_research |-> FALSE,
           next_research_directions |-> <<"d1">>]),
      Ret([alignment_score |-> 3, criteria_met |-> <<>>,
           questions_answered |-> <<>>, missing_aspects |-> <<"m1">>,
           goal_achieved |-> TRUE, continue_research |-> TRUE,
           next_research_directions |-> <<"d1">>]) }

PlanCompletions ==
    { Raised, Ret(EmptyMapping),
      Ret([queries |-> << SerpQuery(<<"qa">>, "ga"), SerpQuery(<<"qb">>, "gb"),
                          SerpQuery(<<"qc">>, "gc"), SerpQuery(<<"qd">>, "gd") >>]),
      Ret([queries |-> << SerpQuery(<<"qa">>, "ga") >>]),
      Ret([queries |-> <<>>]),
      Ret([queries |-> << SerpQuery(<<"qa">>, "ga"), [query |-> <<"qb">>] >>]) }

SearchOutcomes ==
    { Raised, Ret(<<>>),
      Ret(<< Item("u1", "text"), Item("u2", ""), Item("u1", "text") >>),
      Ret(<< Item("u2", "text"), Item("", "text") >>),
      Ret(<< Item("u3", SpecialContent) >>) }

ExtractCompletions ==
    { Raised, Ret(EmptyMapping),
      Ret([learnings |-> <<"l1">>, followUpQuestions |-> <<"f1", "f2", "f3">>]),
      Ret([learnings |-> <<"l2", "l1", "l2">>, followUpQuestions |-> <<>>]) }

ReportCompletions ==
    { Raised, Ret(EmptyMapping),
      Ret([reportText |-> << <<"REPORT">>, <<"body">> >>]),
      Ret([reportText |-> << <<>> >>]),
      Ret([reportText |-> << <<>> >>, reportMarkdown |-> << <<"MARKDOWN">> >>]) }

\* -------------------------------------------------------------------- state
VARIABLES
    input,             \* arguments of deep_research
    pc,                \* position of the controller
    max_epochs, user_goal,
    epoch, goal_achieved, evaluation, all_learnings, all_urls,
    query_context, serp_queries,
    task,              \* the process_query tasks of the current epoch
    search_semaphore, api_semaphore,
    result,            \* <<ResearchResult>> once goal_driven_research returned
    report,            \* <<text>> once write_final_report returned
    calls,             \* collaborator calls made so far
    achieved_at,       \* epoch of the first end-of-epoch evaluation that achieved
    call,              \* a single function applied on its own: name and arguments
    ret,               \* <<its return>> once applied
    sent,              \* <<the prompt it gave to the completion call>>, if it made one
    client,            \* get_client_response applied on its own: its position,
                       \* loop index, sleeps so far, API calls so far, last outcome
    service,           \* the global SearchService under concurrent search calls
    chat               \* one conversation of the chat front end: its state_data,
                       \* the questions generated and presented, the last reply

vars == <<input, pc, max_epochs, user_goal, epoch, goal_achieved, evaluation,
          all_learnings, all_urls, query_context, serp_queries, task,
          search_semaphore, api_semaphore, result, report, calls, achieved_at,
          call, ret, sent, client, service, chat>>

harness == <<call, ret, sent, client, service, chat>>
\* No conversation yet: the conversation id is not in conversation_states.
\* generated, presented and reply record what the handler produced.
NoChat ==
    [state |-> "none", query |-> <<>>, breadth |-> <<>>, depth |-> <<>>,
     questions |-> <<>>, answers |-> <<>>, generated |-> <<>>, presented |-> <<>>,
     reply |-> "none"]
\* The service as constructed: _initialized False, no caller inside search.
NoService ==
    [manager |-> TRUE, suspends |-> FALSE, initialized |-> FALSE, setups |-> 0,
     caller |-> <<>>]
NoClient ==
    [pc |-> "start", attempt |-> 0, waits |-> <<>>, api_calls |-> 0, last |-> [Content(<<>>) EXCEPT !.k = "nothing"]]
NoCall == [fn |-> "none"]

NoCalls ==
    [goal |-> 0, eval |-> 0, eval_ok |-> FALSE, eval_by |-> "none", eval_args |-> <<>>,
     plan |-> 0, late |-> FALSE, extended |-> 0]
\* A planner, retrieval, extraction or evaluator call is late when an
\* end-of-epoch evaluation has already reported the goal achieved.
Late == [calls EXCEPT !.late = @ \/ achieved_at # 0]
Called(kind) == [Late EXCEPT ![kind] = @ + 1]
\* An evaluator call: whether its completion call returned (eval_ok), the
\* call site that made it (eval_by) and its arguments (eval_args).
Evaluated(completion, by, index, learnings) ==
    [Called("eval") EXCEPT !.eval_ok = @ \/ ~completion.raised,
                           !.eval_by = by,
                           !.eval_args = <<[epoch |-> index, learnings |-> learnings]>>]

Tasks == DOMAIN task
\* found: the URLs of the task's search result, one entry per occurrence.
\* rank: the task's place in the order in which the epoch's tasks finished.
NewTask ==
    [pc |-> "start", result |-> <<>>, found |-> <<>>, new_learnings |-> <<>>,
     error |-> FALSE, outcome |-> Ret(EmptyOutcome), rank |-> 0]

\* The state of a session before deep_research is entered.
Idle ==
    /\ pc = "start"
    /\ max_epochs = 0
    /\ user_goal = UserGoal(<<>>, <<>>, <<>>)
    /\ epoch = 0
    /\ goal_achieved = FALSE
    /\ evaluation = <<>>
    /\ all_learnings = <<>>
    /\ all_urls = <<>>
    /\ query_context = <<>>
    /\ serp_queries = <<>>
    /\ task = <<>>
    /\ search_semaphore = 0
    /\ api_semaphore = 0
    /\ result = <<>>
    /\ report = <<>>
    /\ calls = NoCalls
    /\ achieved_at = 0

Init ==
    /\ input \in Sessions
    /\ Idle
    /\ call = NoCall
    /\ ret = <<>>
    /\ sent = <<>>
    /\ client = NoClient
    /\ service = NoService
    /\ chat = NoChat

\* ------------------------------------------------------------ the controller
\* asyncio.Semaphore(1) and asyncio.Semaphore(concurrency), made anew per epoch
\* Variants: the extraction limiter follows the concurrency input; the
\* search limiter admits one more.
NewApiSemaphoreShared(concurrency) == concurrency
NewSearchSemaphoreWide(concurrency) == concurrency + 1

NewApiSemaphore(concurrency) == ApiConcurrency
NewSearchSemaphore(concurrency) == concurrency

\* learnings=all_learnings[-10:] if all_learnings else None
planner_learnings(learnings) ==
    IF learnings = <<>> THEN <<>> ELSE Suffix(learnings, RecentLearnings)

\* Variant: the pipeline lets its exception out.
pipeline_reraise == Raised

\* except Exception in process_query
pipeline_except == Ret(EmptyOutcome)

\* Variant: one of the two lists is enough.
follow_up_either(follow_up_questions, follow_up_answers) ==
    follow_up_questions # <<>> \/ follow_up_answers # <<>>

\* if follow_up_questions and follow_up_answers: None and [] are both false.
follow_up_provided(follow_up_questions, follow_up_answers) ==
    follow_up_questions # <<>> /\ follow_up_answers # <<>>

\* deep_research up to its first await.
Start ==
    /\ UNCHANGED harness
    /\ pc = "start"
    /\ max_epochs' = ClampDepth(input.depth)
    /\ IF follow_up_provided(input.follow_up_questions, input.follow_up_answers)
       THEN /\ pc' = "build_goal"
            /\ UNCHANGED user_goal
       ELSE /\ user_goal' = TrivialGoal(input.query)
            /\ pc' = "loop"
    /\ UNCHANGED <<input, epoch, goal_achieved, evaluation, all_learnings, all_urls,
                   query_context, serp_queries, task, search_semaphore, api_semaphore,
                   result, report, calls, achieved_at>>

\* await generate_user_goal(...)
BuildGoal ==
    /\ UNCHANGED harness
    /\ pc = "build_goal"
    /\ \E c \in GoalCompletions :
         LET r == generate_user_goal(input.query, input.follow_up_answers,
                                     input.follow_up_questions, c)
         IN  IF r.raised
             THEN pc' = "raised" /\ UNCHANGED user_goal
             ELSE pc' = "loop" /\ user_goal' = r.value
    /\ calls' = [calls EXCEPT !.goal = @ + 1]
    /\ UNCHANGED <<input, max_epochs, epoch, goal_achieved, evaluation, all_learnings,
                   all_urls, query_context, serp_queries, task, search_semaphore,
                   api_semaphore, result, report, achieved_at>>

\* The while test holds: epoch += 1 and the choice of the planning context.
EpochStart ==
    /\ UNCHANGED harness
    /\ pc = "loop"
    /\ LoopContinues(epoch, max_epochs, goal_achieved)
    /\ epoch' = epoch + 1
    /\ IF FirstEpoch(epoch')
       THEN pc' = "plan" /\ query_context' = user_goal.primary_objective
       ELSE pc' = "eval_pre" /\ UNCHANGED query_context
    /\ UNCHANGED <<input, max_epochs, user_goal, goal_achieved, evaluation, all_learnings,
                   all_urls, serp_queries, task, search_semaphore, api_semaphore,
                   result, report, calls, achieved_at>>

\* The while test fails.
LoopExit ==
    /\ UNCHANGED harness
    /\ pc = "loop"
    /\ ~LoopContinues(epoch, max_epochs, goal_achieved)
    /\ pc' = "finish"
    /\ UNCHANGED <<input, max_epochs, user_goal, epoch, goal_achieved, evaluation,
                   all_learnings, all_urls, query_context, serp_queries, task,
                   search_semaphore, api_semaphore, result, report, calls, achieved_at>>

\* Epochs >= 2: the evaluation that seeds the planning context.
EvalPre ==
    /\ UNCHANGED harness
    /\ pc = "eval_pre"
    /\ \E c \in EvalCompletions(user_goal) :
         LET r == evaluate_goal_alignment(user_goal, all_learnings, epoch - 1, c)
         IN  /\ calls' = Evaluated(c, "pre", epoch - 1, all_learnings)
             /\ IF r.raised
                THEN pc' = "raised" /\ UNCHANGED <<evaluation, query_context>>
                ELSE /\ pc' = "plan"
                     /\ evaluation' = <<r.value>>
                     /\ query_context' = GapContext(user_goal, r.value)
    /\ UNCHANGED <<input, max_epochs, user_goal, epoch, goal_achieved, all_learnings,
                   all_urls, serp_queries, task, search_semaphore, api_semaphore,
                   result, report, achieved_at>>

\* await generate_serp_queries(...), the semaphores, and the launch of the
\* epoch's process_query tasks by asyncio.gather.
Plan ==
    /\ UNCHANGED harness
    /\ pc = "plan"
    /\ \E c \in PlanCompletions :
         LET r == generate_serp_queries(query_context, input.breadth,
                                        planner_learnings(all_learnings), c)
         IN  IF r.raised
             THEN pc' = "raised" /\ UNCHANGED <<serp_queries, task>>
             ELSE /\ pc' = "gather"
                  /\ serp_queries' = r.value
                  /\ task' = [i \in 1..Len(r.value) |-> NewTask]
    /\ api_semaphore' = NewApiSemaphore(input.concurrency)
    /\ search_semaphore' = NewSearchSemaphore(input.concurrency)
    /\ calls' = Called("plan")
    /\ UNCHANGED <<input, max_epochs, user_goal, epoch, goal_achieved, evaluation,
                   all_learnings, all_urls, query_context, result, report, achieved_at>>

\* ------------------------------------------------------------- process_query
\* Variant: the query's URL list is handed on as found.
all_new_urls(search_result) == new_urls(search_result)

\* unique_new_urls = list(dict.fromkeys(new_urls))
unique_new_urls(search_result) == DictFromKeys(new_urls(search_result))

\* What task i will hand to the gather, as far as it is known.
Pending(i) ==
    [urls |-> IF task[i].pc \in {"wait_api", "extract", "sleep"}
              THEN unique_new_urls(task[i].result)
              ELSE IF task[i].outcome.raised THEN <<>> ELSE task[i].outcome.value.urls,
     learnings |-> IF task[i].pc = "sleep" THEN task[i].new_learnings
                   ELSE IF task[i].outcome.raised THEN <<>>
                   ELSE task[i].outcome.value.learnings]

\* The cap on the accumulators, counted with what the epoch's tasks hold.
FitsUrls(urls) ==
    Len(all_urls) + Len(Concat([i \in Tasks |-> Pending(i).urls])) + Len(urls) <= MaxAccum
FitsLearnings(ls) ==
    Len(all_learnings) + Len(Concat([i \in Tasks |-> Pending(i).learnings])) + Len(ls)
        <= MaxAccum

Finished(i, outcome, error) ==
    [task EXCEPT ![i] = [pc |-> "done", result |-> <<>>, found |-> task[i].found,
                         new_learnings |-> <<>>, error |-> error, outcome |-> outcome,
                         rank |-> Cardinality({j \in Tasks : task[j].pc = "done"}) + 1]]

\* async with search_semaphore: entered, the search call is started.
AcquireSearch(i) ==
    /\ UNCHANGED harness
    /\ pc = "gather"
    /\ task[i].pc = "start"
    /\ search_semaphore > 0
    /\ search_semaphore' = search_semaphore - 1
    /\ task' = [task EXCEPT ![i].pc = "search"]
    /\ calls' = Late
    /\ UNCHANGED <<input, pc, max_epochs, user_goal, epoch, goal_achieved, evaluation,
                   all_learnings, all_urls, query_context, serp_queries, api_semaphore,
                   result, report, achieved_at>>

\* search_service.search returns or raises.
SearchReturns(i) ==
    /\ UNCHANGED harness
    /\ pc = "gather"
    /\ task[i].pc = "search"
    /\ \E s \in SearchOutcomes :
         IF s.raised
         THEN /\ task' = Finished(i, pipeline_except, TRUE)
              /\ search_semaphore' = search_semaphore + 1
         ELSE /\ FitsUrls(unique_new_urls(s.value))
              /\ task' = [task EXCEPT ![i].pc = "wait_api", ![i].result = s.value,
                                      ![i].found = new_urls(s.value)]
              /\ UNCHANGED search_semaphore
    /\ UNCHANGED <<input, pc, max_epochs, user_goal, epoch, goal_achieved, evaluation,
                   all_learnings, all_urls, query_context, serp_queries, api_semaphore,
                   result, report, calls, achieved_at>>

\* async with api_semaphore: entered; process_serp_result runs up to its
\* completion call.
AcquireApi(i) ==
    /\ UNCHANGED harness
    /\ pc = "gather"
    /\ task[i].pc = "wait_api"
    /\ api_semaphore > 0
    /\ IF extraction_contents(task[i].result).raised
       THEN /\ task' = Finished(i, pipeline_except, TRUE)
            /\ search_semaphore' = search_semaphore + 1
            /\ UNCHANGED <<api_semaphore, calls>>
       ELSE /\ task' = [task EXCEPT ![i].pc = "extract"]
            /\ api_semaphore' = api_semaphore - 1
            /\ calls' = Late
            /\ UNCHANGED search_semaphore
    /\ UNCHANGED <<input, pc, max_epochs, user_goal, epoch, goal_achieved, evaluation,
                   all_learnings, all_urls, query_context, serp_queries,
                   result, report, achieved_at>>

\* The completion call of process_serp_result returns or raises; then
\* asyncio.sleep(1) starts.
ExtractReturns(i) ==
    /\ UNCHANGED harness
    /\ pc = "gather"
    /\ task[i].pc = "extract"
    /\ \E c \in ExtractCompletions :
         LET r == process_serp_result(NumLearnings, NumFollowUps, c)
         IN  IF r.raised
             THEN /\ task' = Finished(i, pipeline_except, TRUE)
                  /\ api_semaphore' = api_semaphore + 1
                  /\ search_semaphore' = search_semaphore + 1
             ELSE /\ FitsLearnings(r.value.learnings)
                  /\ task' = [task EXCEPT ![i].pc = "sleep",
                                          ![i].new_learnings = r.value.learnings]
                  /\ UNCHANGED <<api_semaphore, search_semaphore>>
    /\ UNCHANGED <<input, pc, max_epochs, user_goal, epoch, goal_achieved, evaluation,
                   all_learnings, all_urls, query_context, serp_queries,
                   result, report, calls, achieved_at>>

\* Variant: the pipeline returns without releasing the search semaphore.
SleepDoneHoldsSearch(i) ==
    /\ UNCHANGED harness
    /\ pc = "gather"
    /\ task[i].pc = "sleep"
    /\ task' = Finished(i, Ret([learnings |-> task[i].new_learnings,
                                urls |-> unique_new_urls(task[i].result)]),
                        FALSE)
    /\ api_semaphore' = api_semaphore + 1
    /\ UNCHANGED <<input, pc, max_epochs, user_goal, epoch, goal_achieved, evaluation,
                   all_learnings, all_urls, query_context, serp_queries, search_semaphore,
                   result, report, calls, achieved_at>>

\* The pause is over: both semaphores are released and the outcome returned.
SleepDone(i) ==
    /\ UNCHANGED harness
    /\ pc = "gather"
    /\ task[i].pc = "sleep"
    /\ task' = Finished(i, Ret([learnings |-> task[i].new_learnings,
                                urls |-> unique_new_urls(task[i].result)]),
                        FALSE)
    /\ api_semaphore' = api_semaphore + 1
    /\ search_semaphore' = search_semaphore + 1
    /\ UNCHANGED <<input, pc, max_epochs, user_goal, epoch, goal_achieved, evaluation,
                   all_learnings, all_urls, query_context, serp_queries,
                   result, report, calls, achieved_at>>

\* ------------------------------------------------- the controller, continued
\* Variant: the results in the order in which the tasks finished.
OutcomesAsCompleted ==
    [r \in Tasks |-> task[CHOOSE i \in Tasks : task[i].rank = r].outcome.value]

\* results of asyncio.gather: one per task, in the order of the awaitables.
Outcomes == [i \in Tasks |-> task[i].outcome.value]

\* Variants: the epoch's lists are deduplicated before they are appended.
epoch_learnings_unique(results) ==
    DictFromKeys(Concat([i \in 1..Len(results) |-> results[i].learnings]))
epoch_urls_unique(results) ==
    DictFromKeys(Concat([i \in 1..Len(results) |-> results[i].urls]))

\* for result in results: epoch_learnings.extend(...); epoch_urls.extend(...)
epoch_learnings(results) == Concat([i \in 1..Len(results) |-> results[i].learnings])
epoch_urls(results) == Concat([i \in 1..Len(results) |-> results[i].urls])

\* Variant: the gather returns with the first task that is done.
gather_first_completed == \E i \in Tasks : task[i].pc = "done"

\* await asyncio.gather(...) returns when every task is done.
gather_returns == \A i \in Tasks : task[i].pc = "done"

\* asyncio.gather returned: the outcomes are appended in query order.
\* calls.extended: the epoch whose lists were last appended.
Gather ==
    /\ UNCHANGED harness
    /\ pc = "gather"
    /\ gather_returns
    /\ IF \E i \in Tasks : task[i].outcome.raised
       THEN pc' = "raised" /\ UNCHANGED <<all_learnings, all_urls, calls>>
       ELSE /\ pc' = "eval_post"
            /\ all_learnings' = all_learnings \o epoch_learnings(Outcomes)
            /\ all_urls' = all_urls \o epoch_urls(Outcomes)
            /\ calls' = [calls EXCEPT !.extended = epoch]
    /\ UNCHANGED <<input, max_epochs, user_goal, epoch, goal_achieved, evaluation,
                   query_context, serp_queries, task, search_semaphore, api_semaphore,
                   result, report, achieved_at>>

\* The end-of-epoch evaluation and the break.
EvalPost ==
    /\ UNCHANGED harness
    /\ pc = "eval_post"
    /\ \E c \in EvalCompletions(user_goal) :
         LET r == evaluate_goal_alignment(user_goal, all_learnings, epoch, c)
         IN  /\ calls' = Evaluated(c, "post", epoch, all_learnings)
             /\ IF r.raised
                THEN pc' = "raised" /\ UNCHANGED <<evaluation, goal_achieved, achieved_at>>
                ELSE /\ evaluation' = <<r.value>>
                     /\ goal_achieved' = GoalAchievedOf(r.value)
                     /\ achieved_at' = IF r.value.goal_achieved /\ achieved_at = 0
                                       THEN epoch ELSE achieved_at
                     /\ pc' = IF goal_achieved' THEN "finish" ELSE "loop"
    /\ task' = <<>>
    /\ UNCHANGED <<input, max_epochs, user_goal, epoch, all_learnings, all_urls,
                   query_context, serp_queries, search_semaphore, api_semaphore,
                   result, report>>

\* After the loop: deduplication and the returned ResearchResult.
Finish ==
    /\ UNCHANGED harness
    /\ pc = "finish"
    /\ result' = <<ResearchResult(all_learnings, all_urls, evaluation, epoch, goal_achieved)>>
    /\ pc' = "done"
    /\ UNCHANGED <<input, max_epochs, user_goal, epoch, goal_achieved, evaluation,
                   all_learnings, all_urls, query_context, serp_queries, task,
                   search_semaphore, api_semaphore, report, calls, achieved_at>>

\* The caller's await write_final_report(...)
WriteReport ==
    /\ UNCHANGED harness
    /\ pc = "done"
    /\ \E c \in ReportCompletions :
         LET r == write_final_report(input.query, result[1].learnings,
                                     result[1].visited_urls, c)
         IN  IF r.raised
             THEN pc' = "raised" /\ UNCHANGED report
             ELSE pc' = "reported" /\ report' = <<r.value>>
    /\ UNCHANGED <<input, max_epochs, user_goal, epoch, goal_achieved, evaluation,
                   all_learnings, all_urls, query_context, serp_queries, task,
                   search_semaphore, api_semaphore, result, calls, achieved_at>>

Pipeline(i) ==
    \/ AcquireSearch(i)
    \/ SearchReturns(i)
    \/ AcquireApi(i)
    \/ ExtractReturns(i)
    \/ SleepDone(i)

Next ==
    \/ Start
    \/ BuildGoal
    \/ EpochStart
    \/ LoopExit
    \/ EvalPre
    \/ Plan
    \/ \E i \in Tasks : Pipeline(i)
    \/ Gather
    \/ EvalPost
    \/ Finish
    \/ WriteReport

Spec == Init /\ [][Next]_vars

\* The event loop runs a task that can run, and every external call
\* returns or raises.
FairSpec == Spec /\ WF_vars(Next)

\* ----------------------------------- goal_driven_research called on its own
\* max_epochs arguments below, at and above 1: the function itself does not
\* clamp.
DirectInit ==
    /\ input \in { Session(m, 1, 1, NoQA) : m \in {0 - 1, 0, 1, 2, 3} }
    /\ pc = "loop"
    /\ max_epochs = input.depth
    /\ user_goal \in Goals
    /\ epoch = 0
    /\ goal_achieved = FALSE
    /\ evaluation = <<>>
    /\ all_learnings = <<>>
    /\ all_urls = <<>>
    /\ query_context = <<>>
    /\ serp_queries = <<>>
    /\ task = <<>>
    /\ search_semaphore = 0
    /\ api_semaphore = 0
    /\ result = <<>>
    /\ report = <<>>
    /\ calls = NoCalls
    /\ achieved_at = 0
    /\ call = NoCall
    /\ ret = <<>>
    /\ sent = <<>>
    /\ client = NoClient
    /\ service = NoService
    /\ chat = NoChat

DirectNext ==
    \/ EpochStart
    \/ LoopExit
    \/ EvalPre
    \/ Plan
    \/ \E i \in Tasks : Pipeline(i)
    \/ Gather
    \/ EvalPost
    \/ Finish

DirectSpec == DirectInit /\ [][DirectNext]_vars

\* ------------------------------------------- functions applied on their own
\* What the controller hands to the planner and the evaluator's callers hand
\* on: the slice of line 377 of an accumulator of 0, 1, 6 and 12 learnings.
LearningInputs ==
    { planner_learnings(Prefix(<<"l1", "l2", "l3", "l4", "l5", "l6", "l7", "l8", "l9",
                                "l10", "l11", "l12">>, n)) : n \in {0, 1, 6, 12} }

PlannerCalls ==
    { [fn |-> "generate_serp_queries", query |-> q, num_queries |-> n,
       learnings |-> ls, completion |-> c] :
        q \in { Topic, <<>>, <<"objective">>,
                GapContext(TrivialGoal(Topic), FallbackEvaluation) },
        n \in 1..MaxQueries, ls \in LearningInputs, c \in PlanCompletions }

\* n numbered texts: <<"q", 1>>, <<"q", 2>>, ...
Numbered(tag, n) == [i \in 1..n |-> <<tag, i>>]

GoalCalls ==
    { [fn |-> "generate_user_goal", initial_query |-> q,
       follow_up_answers |-> Numbered("a", na),
       follow_up_questions |-> Numbered("q", nq), completion |-> c] :
        q \in {Topic, <<>>}, na \in 0..MaxPairs, nq \in 0..MaxPairs, c \in GoalCompletions }

EvaluatorCalls ==
    { [fn |-> "evaluate_goal_alignment", user_goal |-> g, current_learnings |-> ls,
       epoch |-> e, completion |-> c] :
        g \in Goals, ls \in LearningInputs, e \in 0..MaxEpochsCap,
        c \in UNION { EvalCompletions(h) : h \in Goals } }

\* The completions include extraction outputs longer than the controller's
\* num_learnings = 5 and num_follow_up_questions = 2.
ExtractorCalls ==
    { [fn |-> "process_serp_result", search_result |-> sr.value,
       num_learnings |-> nl, num_follow_up_questions |-> nf, completion |-> c] :
        sr \in {x \in SearchOutcomes : ~x.raised},
        nl \in (0..MaxTake) \cup {NumLearnings},
        nf \in (0..MaxTake) \cup {NumFollowUps},
        c \in ExtractCompletions
              \cup { Ret([learnings |-> Numbered("l", NumLearnings + 1),
                          followUpQuestions |-> Numbered("f", NumFollowUps + 1)]),
                     Ret([followUpQuestions |-> <<"f1">>]) } }

\* Learning counts below, at and above the fallback report's chunk limits.
ReportCalls ==
    { [fn |-> "write_final_report", prompt |-> Topic, learnings |-> Numbered("l", n),
       visited_urls |-> us, completion |-> c] :
        n \in {0, 1, 10, 11, 21, 31, 41},
        us \in { <<>>, <<"u1">>, <<"u1", "u2", "u1">>, <<"u2", "u3", "u1">> },
        c \in ReportCompletions }

\* Objects a response may hold: a report whose text opens with a quoted
\* word, a plain report, the extractor's arrays, and a plan with a key that
\* no pattern of strategy 5 looks for.
Objects ==
    { [reportText |-> << <<Quote, "AI", Quote, "is", "growing">> >>],
      [reportText |-> << <<"RESEARCH", "REPORT">>, <<"body">> >>],
      [learnings |-> <<"l1">>, followUpQuestions |-> <<"f1">>],
      [queries |-> <<"q1">>, model |-> <<"m">>] }

\* Sentences: plain or with a braced word.
Sentences == { Prose(b, <<>>) : b \in BOOLEAN }

Responses ==
    { <<>>, <<Prose(FALSE, << <<"long", "passage">> >>)>>, <<Broken>>,
      <<Val(JOther("array"))>>, <<Val(JOther("null"))>>, <<Val(JOther("number"))>> }
    \cup { <<t>> : t \in Sentences }
    \cup { <<Obj(m)>> : m \in Objects }
    \cup { <<Open(m)>> : m \in Objects }
    \cup { <<f, Open(m)>> : f \in {Fence, JsonFence}, m \in Objects }
    \cup { <<f, Obj(m), Fence>> : f \in {Fence, JsonFence}, m \in Objects }
    \cup { <<f, Obj(m), Fence, t>> :
             f \in {Fence, JsonFence}, m \in Objects, t \in Sentences }
    \cup { <<t, Obj(m)>> : m \in Objects, t \in Sentences }

\* max_retries arguments from none to one above the default; special: the
\* messages hold a token the encoder refuses.
MaxRetries == 4
DefaultRetries == 3
ApiOutcomes ==
    { Content(<<Obj([learnings |-> <<"l1">>, followUpQuestions |-> <<"f1">>])>>),
      Content(<<JsonFence, Obj([queries |-> <<"q1">>]), Fence, Prose(FALSE, <<>>)>>),
      Content(<<Val(JOther("array"))>>),
      Content(<<>>),
      [Content(<<>>) EXCEPT !.k = "none"],    \* message.content is None
      ApiError(TRUE, FALSE, TRUE),      \* "Error code: 429 - ..."
      ApiError(FALSE, TRUE, TRUE),      \* "Rate limit reached ..."
      ApiError(FALSE, TRUE, FALSE),     \* "Failed to generate ..."
      ApiError(FALSE, FALSE, FALSE) }   \* "Connection error."

\* Request outcomes: a page, an empty page, an error page, a timeout, an
\* exception; up to MaxScrapes passes per URL.
MaxScrapes == 3
RequestOutcomes ==
    { PageResponse(200, "page"), PageResponse(200, ""), PageResponse(404, "Not Found"),
      RequestFailure("timeout"), RequestFailure("exception") }
RECURSIVE OutcomesOfLen(_)
OutcomesOfLen(n) ==
    IF n = 0 THEN { <<>> }
    ELSE { Append(a, o) : a \in OutcomesOfLen(n - 1), o \in RequestOutcomes }

RetrievalCalls ==
    { [fn |-> "search", search_results |-> <<SearchResult("u1", "t1")>>,
       web |-> [u \in {"u1"} |-> a], raises |-> b] :
        a \in UNION { OutcomesOfLen(n) : n \in 0..MaxScrapes }, b \in BOOLEAN }
    \cup
    { [fn |-> "search",
       search_results |-> <<SearchResult("u1", "t1"), SearchResult("u2", "t2")>>,
       web |-> [u \in {"u1", "u2"} |-> IF u = "u1" THEN a ELSE <<o>>],
       raises |-> FALSE] :
        a \in OutcomesOfLen(2), o \in RequestOutcomes }

FnInit ==
    /\ input = Session(1, 1, 1, NoQA)
    /\ Idle
    /\ call \in PlannerCalls \cup GoalCalls \cup EvaluatorCalls \cup ExtractorCalls
                \cup ReportCalls \cup RetrievalCalls
                \cup { [fn |-> "extract_json_from_response", response_text |-> r] :
                         r \in Responses }
                \cup { [fn |-> "get_client_response", max_retries |-> n, special |-> b] :
                         n \in 0..MaxRetries, b \in BOOLEAN }
    /\ ret = <<>>
    /\ sent = <<>>
    /\ client = NoClient
    /\ service = NoService
    /\ chat = NoChat

session == <<input, pc, max_epochs, user_goal, epoch, goal_achieved, evaluation,
             all_learnings, all_urls, query_context, serp_queries, task,
             search_semaphore, api_semaphore, result, report, calls, achieved_at>>

ApplyPlanner ==
    /\ call.fn = "generate_serp_queries"
    /\ ret = <<>>
    /\ sent' = <<planner_prompt(call.query, call.num_queries, call.learnings)>>
    /\ ret' = <<generate_serp_queries(call.query, call.num_queries, call.learnings,
                                      call.completion)>>
    /\ UNCHANGED <<call, client, service, chat, session>>

ApplyGoalBuilder ==
    /\ call.fn = "generate_user_goal"
    /\ ret = <<>>
    /\ sent' = <<goal_prompt(call.initial_query, call.follow_up_answers,
                             call.follow_up_questions)>>
    /\ ret' = <<generate_user_goal(call.initial_query, call.follow_up_answers,
                                   call.follow_up_questions, call.completion)>>
    /\ UNCHANGED <<call, client, service, chat, session>>

ApplyEvaluator ==
    /\ call.fn = "evaluate_goal_alignment"
    /\ ret = <<>>
    /\ sent' = <<alignment_prompt(call.user_goal, call.current_learnings, call.epoch)>>
    /\ ret' = <<evaluate_goal_alignment(call.user_goal, call.current_learnings,
                                        call.epoch, call.completion)>>
    /\ UNCHANGED <<call, client, service, chat, session>>

\* process_serp_result as a whole: trim_prompt on the contents, then the
\* completion call inside the handler.
ApplyExtractor ==
    /\ call.fn = "process_serp_result"
    /\ ret = <<>>
    /\ LET contents == extraction_contents(call.search_result)
       IN  IF contents.raised
           THEN ret' = <<Raised>> /\ UNCHANGED sent
           ELSE /\ sent' = <<contents.value>>
                /\ ret' = <<process_serp_result(call.num_learnings,
                                                call.num_follow_up_questions,
                                                call.completion)>>
    /\ UNCHANGED <<call, client, service, chat, session>>

ApplyReportWriter ==
    /\ call.fn = "write_final_report"
    /\ ret = <<>>
    /\ sent' = <<report_prompt(call.prompt, call.learnings)>>
    /\ ret' = <<write_final_report(call.prompt, call.learnings, call.visited_urls,
                                   call.completion)>>
    /\ UNCHANGED <<call, client, service, chat, session>>

ApplyParser ==
    /\ call.fn = "extract_json_from_response"
    /\ ret = <<>>
    /\ ret' = <<extract_json_from_response(call.response_text)>>
    /\ UNCHANGED <<call, sent, client, service, chat, session>>

\* get_client_response up to its loop: the token count of the messages
\* raises on a refused token; range(max_retries) is empty for max_retries <= 0.
ClientStart ==
    /\ call.fn = "get_client_response"
    /\ ret = <<>>
    /\ client.pc = "start"
    /\ IF call.special
       THEN ret' = <<Raised>> /\ client' = [client EXCEPT !.pc = "done"]
       ELSE IF call.max_retries <= 0
       THEN /\ ret' = <<Ret(JObject(ExhaustedResponse))>>
            /\ client' = [client EXCEPT !.pc = "done"]
       ELSE client' = [client EXCEPT !.pc = "call"] /\ UNCHANGED ret
    /\ UNCHANGED <<call, sent, service, chat, session>>

\* One pass of the loop body up to its return, raise or sleep.  The handler
\* around the parser is not entered: the parser returns for every text.
ClientAttempt ==
    /\ call.fn = "get_client_response"
    /\ client.pc = "call"
    /\ \E o \in ApiOutcomes :
         LET c == [client EXCEPT !.api_calls = @ + 1, !.last = o]
         IN  IF o.k = "content"
             THEN /\ ret' = <<Ret(extract_json_from_response(o.text).value)>>
                  /\ client' = [c EXCEPT !.pc = "done"]
             ELSE IF o.k = "error" /\ is_rate_limit(o)
             THEN /\ client' = [c EXCEPT !.pc = "sleep",
                                         !.waits = Append(@, wait_time(c.attempt))]
                  /\ UNCHANGED ret
             ELSE /\ ret' = <<Raised>>
                  /\ client' = [c EXCEPT !.pc = "done"]
    /\ UNCHANGED <<call, sent, service, chat, session>>

\* asyncio.sleep returned: raise after the last pass, else the next pass.
ClientWake ==
    /\ call.fn = "get_client_response"
    /\ client.pc = "sleep"
    /\ IF client.attempt = call.max_retries - 1
       THEN ret' = <<Raised>> /\ client' = [client EXCEPT !.pc = "done"]
       ELSE /\ client' = [client EXCEPT !.pc = "call", !.attempt = @ + 1]
            /\ UNCHANGED ret
    /\ UNCHANGED <<call, sent, service, chat, session>>

ApplySearch ==
    /\ call.fn = "search"
    /\ ret = <<>>
    /\ ret' = <<Ret(search(call.search_results, call.web, call.raises))>>
    /\ UNCHANGED <<call, sent, client, service, chat, session>>

FnNext ==
    \/ ApplySearch
    \/ ApplyParser
    \/ ClientStart
    \/ ClientAttempt
    \/ ClientWake
    \/ ApplyPlanner
    \/ ApplyGoalBuilder
    \/ ApplyEvaluator
    \/ ApplyExtractor
    \/ ApplyReportWriter

FnSpec == FnInit /\ [][FnNext]_vars

\* ------------------------------- SearchService.search called concurrently
\* The pipelines of one epoch inside the search semaphore call search on the
\* one global service.  manager: the service was built with a manager (any
\* type but firecrawl); suspends: manager.setup() gives up control before it
\* returns, as PlaywrightScraper.setup does at its first await.
MaxCallers == 3

ServiceInit ==
    /\ input = Session(1, 1, 1, NoQA)
    /\ Idle
    /\ call = NoCall
    /\ ret = <<>>
    /\ sent = <<>>
    /\ client = NoClient
    /\ chat = NoChat
    /\ \E n \in 1..MaxCallers, m \in BOOLEAN, y \in BOOLEAN :
         service = [NoService EXCEPT !.manager = m, !.suspends = y,
                                     !.caller = [i \in 1..n |-> "start"]]

\* ensure_initialized up to its await: the test of _initialized and the
\* call of manager.setup(), run through when setup does not suspend.
EnsureInitialized(i) ==
    /\ service.caller[i] = "start"
    /\ IF service.manager /\ ~service.initialized
       THEN IF service.suspends
            THEN service' = [service EXCEPT !.setups = @ + 1, !.caller[i] = "setup"]
            ELSE service' = [service EXCEPT !.setups = @ + 1, !.initialized = TRUE,
                                            !.caller[i] = "search"]
       ELSE service' = [service EXCEPT !.caller[i] = "search"]
    /\ UNCHANGED <<call, ret, sent, client, chat, session>>

\* manager.setup() returns: self._initialized = True.
SetupReturns(i) ==
    /\ service.caller[i] = "setup"
    /\ service' = [service EXCEPT !.initialized = TRUE, !.caller[i] = "search"]
    /\ UNCHANGED <<call, ret, sent, client, chat, session>>

\* manager.setup() raises: the exception leaves search.
SetupRaises(i) ==
    /\ service.caller[i] = "setup"
    /\ service' = [service EXCEPT !.caller[i] = "done"]
    /\ UNCHANGED <<call, ret, sent, client, chat, session>>

\* The rest of search.
SearchCompletes(i) ==
    /\ service.caller[i] = "search"
    /\ service' = [service EXCEPT !.caller[i] = "done"]
    /\ UNCHANGED <<call, ret, sent, client, chat, session>>

\* cleanup(), called when no search is under way: teardown, and
\* _initialized False again.
Cleanup ==
    /\ \A i \in DOMAIN service.caller : service.caller[i] = "done"
    /\ service.manager /\ service.initialized
    /\ service' = [service EXCEPT !.initialized = FALSE, !.setups = 0]
    /\ UNCHANGED <<call, ret, sent, client, chat, session>>

ServiceNext ==
    \/ \E i \in DOMAIN service.caller : EnsureInitialized(i)
    \/ \E i \in DOMAIN service.caller : SetupReturns(i)
    \/ \E i \in DOMAIN service.caller : SetupRaises(i)
    \/ \E i \in DOMAIN service.caller : SearchCompletes(i)
    \/ Cleanup

ServiceSpec == ServiceInit /\ [][ServiceNext]_vars

\* ------------------------------------------------------- the chat front end
\* One conversation handled by main: every incoming request is one run of
\* the handler on the state_data kept for the conversation id.
\* int(current_message or default): Raised stands for ValueError.
int_or_default(current_message, default) ==
    LET text == IF current_message = "" THEN default ELSE current_message
        numerals == ("2" :> 2) @@ ("3" :> 3) @@ ("4" :> 4)
    IN  IF text \in DOMAIN numerals THEN Ret(numerals[text]) ELSE Raised

\* str() of a list inside an f-string: the bracketed items.
str_of_list(items) == <<"[">> \o items \o <<"]">>

\* generate_feedback: the completion call, then one prompt at the server's
\* terminal per question; it returns the pair (questions, answers).  The
\* completion call is outside the try, and the try catches only
\* json.JSONDecodeError: a failed completion call or a terminal that gives no
\* further answer raises.
generate_feedback(completion, terminal) ==
    IF completion.raised THEN Raised
    ELSE LET questions == Get(completion.value, "questions", <<>>)
         IN  IF Len(terminal) < Len(questions) THEN Raised
             ELSE Ret(<<questions, Prefix(terminal, Len(questions))>>)

ChatInit ==
    /\ input = Session(1, 1, 1, NoQA)
    /\ Idle
    /\ call = NoCall
    /\ ret = <<>>
    /\ sent = <<>>
    /\ client = NoClient
    /\ service = NoService
    /\ chat = NoChat

\* A conversation id not seen before: the state_data is created.
NewConversation(current_message) ==
    /\ chat.state = "none"
    /\ chat' = [NoChat EXCEPT !.state = "awaiting_query", !.reply = "ask_query"]
    /\ UNCHANGED <<call, ret, sent, client, service, session>>

ReceiveQuery(current_message) ==
    /\ chat.state = "awaiting_query"
    /\ chat' = [chat EXCEPT !.query = <<current_message>>,
                            !.state = "awaiting_breadth",
                            !.reply = "ask_breadth"]
    /\ UNCHANGED <<call, ret, sent, client, service, session>>

ReceiveBreadth(current_message) ==
    /\ chat.state = "awaiting_breadth"
    /\ LET n == int_or_default(current_message, "4")
       IN  IF n.raised
           THEN chat' = [chat EXCEPT !.reply = "invalid_breadth"]
           ELSE chat' = [chat EXCEPT !.breadth = <<n.value>>,
                                     !.state = "awaiting_depth",
                                     !.reply = "ask_depth"]
    /\ UNCHANGED <<call, ret, sent, client, service, session>>

\* The depth, then generate_feedback and the first question.  An exception
\* of generate_feedback leaves the handler with the depth already stored.
ReceiveDepth(current_message) ==
    /\ chat.state = "awaiting_depth"
    /\ LET n == int_or_default(current_message, "2")
       IN  IF n.raised
           THEN chat' = [chat EXCEPT !.reply = "invalid_depth"]
           ELSE \E completion \in
                     { Raised, Ret(EmptyMapping), Ret([questions |-> <<>>]),
                       Ret([questions |-> <<"q1">>]),
                       Ret([questions |-> <<"q1", "q2", "q3">>]) },
                   terminal \in { <<>>, <<"t1", "t2", "t3">> } :
                  LET r == generate_feedback(completion, terminal)
                  IN  IF r.raised
                      THEN chat' = [chat EXCEPT !.depth = <<n.value>>,
                                                !.reply = "raised"]
                      ELSE chat' =
                             [chat EXCEPT
                                !.depth = <<n.value>>,
                                !.questions = r.value,
                                !.generated = Get(completion.value, "questions", <<>>),
                                !.state = "asking_questions",
                                !.presented =
                                    <<[index |-> 1, body |-> str_of_list(r.value[1])]>>,
                                !.reply = "question"]
    /\ UNCHANGED <<call, ret, sent, client, service, session>>

\* The message is appended to answers; then the next question, or the
\* research (deep_research and write_final_report) and the final reply.
ReceiveAnswer(current_message) ==
    /\ chat.state = "asking_questions"
    /\ LET answers == Append(chat.answers, current_message)
       IN  IF Len(answers) < Len(chat.questions)
           THEN chat' = [chat EXCEPT
                           !.answers = answers,
                           !.presented =
                               Append(@, [index |-> Len(answers) + 1,
                                          body |-> str_of_list(
                                                      chat.questions[Len(answers) + 1])]),
                           !.reply = "question"]
           ELSE \E research_returns \in BOOLEAN :
                  chat' = [chat EXCEPT
                             !.answers = answers,
                             !.state = IF research_returns THEN "complete"
                                       ELSE "researching",
                             !.reply = IF research_returns THEN "report" ELSE "raised"]
    /\ UNCHANGED <<call, ret, sent, client, service, session>>

\* A message after the report: the state_data is created anew.
ResetConversation(current_message) ==
    /\ chat.state = "complete"
    /\ chat' = [NoChat EXCEPT !.state = "awaiting_query", !.reply = "restart"]
    /\ UNCHANGED <<call, ret, sent, client, service, session>>

\* No branch for RESEARCHING: the fallback response, the state as it was.
FallbackResponse(current_message) ==
    /\ chat.state = "researching"
    /\ chat' = [chat EXCEPT !.reply = "fallback"]
    /\ UNCHANGED <<call, ret, sent, client, service, session>>

\* Messages: empty, a number, a text that is not a number.
ChatNext ==
    \E current_message \in {"", "3", "abc"} :
        \/ NewConversation(current_message)
        \/ ReceiveQuery(current_message)
        \/ ReceiveBreadth(current_message)
        \/ ReceiveDepth(current_message)
        \/ ReceiveAnswer(current_message)
        \/ ResetConversation(current_message)
        \/ FallbackResponse(current_message)

ChatSpec == ChatInit /\ [][ChatNext]_vars

\* ==================================================================== claims
NoDuplicates(s) == \A i, j \in 1..Len(s) : s[i] = s[j] => i = j
Elements(s) == {s[i] : i \in 1..Len(s)}
FirstIndex(s, x) == CHOOSE i \in 1..Len(s) : s[i] = x /\ \A j \in 1..(i - 1) : s[j] # x

\* d holds each value of s once, ordered by first occurrence in s.
FirstOccurrences(d, s) ==
    /\ NoDuplicates(d)
    /\ Elements(d) = Elements(s)
    /\ \A i, j \in 1..Len(d) : i < j => FirstIndex(s, d[i]) < FirstIndex(s, d[j])

\* C1: the returned learnings and visited_urls hold no duplicate and are the
\* accumulated all_learnings / all_urls with only the first occurrence of
\* every value kept, in first-occurrence order.
C1_Deduplicated ==
    result # <<>> =>
        /\ FirstOccurrences(result[1].learnings, all_learnings)
        /\ FirstOccurrences(result[1].visited_urls, all_urls)

C1_Witness ==
    /\ result # <<>>
    /\ epoch >= 2
    /\ Len(result[1].learnings) < Len(all_learnings)
    /\ Len(result[1].visited_urls) < Len(all_urls)

MeetsRatio(met, all) == Len(all) = 0 \/ 10 * Len(met) >= GoalThreshold * Len(all)

\* C2: every evaluation with goal_achieved true has alignment_score >= 0.8
\* and at least 80% of the criteria met and of the questions answered.
C2_GoalAchievedRule ==
    evaluation # <<>> =>
        (evaluation[1].goal_achieved =>
            /\ evaluation[1].alignment_score >= GoalThreshold
            /\ MeetsRatio(evaluation[1].criteria_met, user_goal.success_criteria)
            /\ MeetsRatio(evaluation[1].questions_answered, user_goal.specific_questions))

Clamped(d) == IF d < 1 THEN 1 ELSE IF d > 5 THEN 5 ELSE d

C4_EarlyStop ==
    achieved_at # 0 =>
        /\ ~calls.late
        /\ pc \in {"finish", "done", "reported"}
        /\ epoch = achieved_at
        /\ result # <<>> => /\ result[1].epochs_completed = achieved_at
                            /\ result[1].goal_achieved = TRUE

C4_Witness ==
    /\ result # <<>>
    /\ achieved_at = 1
    /\ max_epochs = 2
    /\ input.breadth = 2

\* C5: when no end-of-epoch evaluation reports goal_achieved, the loop ends
\* after exactly max_epochs epochs and a ResearchResult is returned with
\* epochs_completed = max_epochs and goal_achieved = false.
C5_BudgetExhausted ==
    /\ <>(result # <<>>)
    /\ [](result # <<>> /\ achieved_at = 0 =>
            /\ epoch = max_epochs
            /\ result[1].epochs_completed = max_epochs
            /\ result[1].goal_achieved = FALSE)

C5_Witness ==
    /\ result # <<>>
    /\ achieved_at = 0
    /\ result[1].epochs_completed = MaxEpochsCap

InSearchSection == {i \in Tasks : task[i].pc \in {"search", "wait_api", "extract", "sleep"}}

\* C7: at most concurrency pipelines are inside their retrieval/extraction
\* section at any time.
C7_SearchBound == Cardinality(InSearchSection) <= input.concurrency

C7_Witness ==
    /\ pc = "gather"
    /\ Cardinality(InSearchSection) = input.concurrency
    /\ \E i \in Tasks : task[i].pc = "start"
    /\ \E i \in Tasks : task[i].pc = "extract"

\* The pipelines whose extraction call is in flight or in its pause.
InApiSection == {i \in Tasks : task[i].pc \in {"extract", "sleep"}}

\* C8: at most one extraction call is in flight whatever the concurrency
\* input, and none starts while the pause after the previous one lasts.
C8_ExtractionSerialized == Cardinality(InApiSection) <= 1

C8_Witness ==
    /\ input.concurrency >= 2
    /\ \E i, j \in Tasks : task[i].pc = "sleep" /\ task[j].pc = "wait_api"

Contribution(t) == IF t.error THEN EmptyOutcome ELSE t.outcome.value

\* C9: a pipeline whose retrieval call or extraction step raised hands in
\* empty learnings and urls; the gather still appends the outcomes of the
\* other pipelines and the epoch goes on to its end-of-epoch evaluation.
C9_PipelineFailSoft ==
    [][pc = "gather" /\ pc' # "gather" =>
        /\ pc' = "eval_post"
        /\ \A i \in Tasks : task[i].error => task[i].outcome = Ret(EmptyOutcome)
        /\ all_learnings' =
             all_learnings \o Concat([i \in Tasks |-> Contribution(task[i]).learnings])
        /\ all_urls' = all_urls \o Concat([i \in Tasks |-> Contribution(task[i]).urls])]_vars

C9_Witness ==
    /\ pc = "eval_post"
    /\ \E i, j \in Tasks :
         /\ task[i].error
         /\ ~task[j].error
         /\ task[j].outcome.value.learnings # <<>>
         /\ task[j].outcome.value.urls # <<>>
    /\ all_learnings # <<>>
    /\ all_urls # <<>>

\* C10: with a completion call that raises, generate_serp_queries(context, n,
\* None) returns exactly one SerpQuery whose query is the context.
C10_PlannerFallback ==
    (/\ call.fn = "generate_serp_queries"
     /\ call.completion.raised
     /\ call.learnings = <<>>
     /\ ret # <<>>) =>
        /\ ~ret[1].raised
        /\ Len(ret[1].value) = 1
        /\ ret[1].value[1].query = call.query

C10_Witness ==
    /\ call.fn = "generate_serp_queries"
    /\ call.completion.raised
    /\ call.learnings = <<>>
    /\ call.num_queries >= 2
    /\ ret # <<>>

\* Planner output the specification calls empty or malformed.
MalformedPlan(m) ==
    \/ "queries" \notin DOMAIN m
    \/ m.queries = <<>>
    \/ \E i \in 1..Len(m.queries) : ~WellFormedQuery(m.queries[i])

\* C11: when the completion call returns a mapping with no 'queries' key, an
\* empty 'queries' list or an entry lacking the expected fields,
\* generate_serp_queries returns the one-element list
\* [SerpQuery(query=context, research_goal="general")].
C11_MalformedFallback ==
    (/\ call.fn = "generate_serp_queries"
     /\ ~call.completion.raised
     /\ MalformedPlan(call.completion.value)
     /\ ret # <<>>) =>
        ret[1] = Ret(<<SerpQuery(call.query, "general")>>)

\* C12: for a well-formed model output with m queries, generate_serp_queries
\* returns the first min(m, num_queries) queries in the model's order.
C12_PlannerPrefix ==
    (/\ call.fn = "generate_serp_queries"
     /\ ~call.completion.raised
     /\ "queries" \in DOMAIN call.completion.value
     /\ \A i \in 1..Len(call.completion.value.queries) :
            WellFormedQuery(call.completion.value.queries[i])
     /\ ret # <<>>) =>
        LET queries == call.completion.value.queries
            m == Len(queries)
            n == IF m <= call.num_queries THEN m ELSE call.num_queries
        IN  /\ ~ret[1].raised
            /\ Len(ret[1].value) = n
            /\ \A i \in 1..n : ret[1].value[i] = queries[i]

C12_Witness ==
    /\ call.fn = "generate_serp_queries"
    /\ ~call.completion.raised
    /\ "queries" \in DOMAIN call.completion.value
    /\ Len(call.completion.value.queries) = 4
    /\ call.num_queries = 2
    /\ ret # <<>>
    /\ Len(ret[1].value) = 2

\* C13: while every evaluator call so far had its completion call fail, the
\* evaluation is the neutral one (alignment_score 0.5, goal_achieved false,
\* continue_research true, non-empty missing_aspects and
\* next_research_directions), no epoch reported the goal achieved, and a
\* returned result has epochs_completed = max_epochs, goal_achieved = false
\* and goal_alignment_score = 0.5.
C13_EvaluatorFallback ==
    (calls.eval > 0 /\ ~calls.eval_ok) =>
        /\ evaluation # <<>>
        /\ evaluation[1].alignment_score = 5
        /\ evaluation[1].goal_achieved = FALSE
        /\ evaluation[1].continue_research = TRUE
        /\ evaluation[1].missing_aspects # <<>>
        /\ evaluation[1].next_research_directions # <<>>
        /\ achieved_at = 0
        /\ result # <<>> =>
              /\ result[1].epochs_completed = max_epochs
              /\ result[1].goal_achieved = FALSE
              /\ result[1].goal_alignment_score = 5

C13_Witness ==
    /\ result # <<>>
    /\ ~calls.eval_ok
    /\ calls.eval = 5
    /\ max_epochs = 3
    /\ result[1].epochs_completed = 3

\* C14: when the goal builder's completion call fails, generate_user_goal
\* returns, without raising, a goal whose primary_objective is the initial
\* query and that has exactly one success criterion and one specific question.
C14_GoalFallback ==
    (/\ call.fn = "generate_user_goal"
     /\ call.completion.raised
     /\ ret # <<>>) =>
        /\ ~ret[1].raised
        /\ ret[1].value.primary_objective = call.initial_query
        /\ Len(ret[1].value.success_criteria) = 1
        /\ Len(ret[1].value.specific_questions) = 1

C14_Witness ==
    /\ call.fn = "generate_user_goal"
    /\ call.completion.raised
    /\ call.initial_query = Topic
    /\ Len(call.follow_up_questions) = 2
    /\ Len(call.follow_up_answers) = 2
    /\ ret # <<>>

\* C15: when the completion call yields an empty mapping, the goal builder
\* returns the trivial goal with primary_objective = initial query, the
\* planner the one-element fallback list, and the evaluator the neutral
\* evaluation with alignment_score 0.5, as each does for a raised failure.
C15_EmptyMappingFallback ==
    ( /\ ret # <<>>
      /\ call.fn \in {"generate_user_goal", "generate_serp_queries", "evaluate_goal_alignment"}
      /\ call.completion = Ret(EmptyMapping) ) =>
        /\ call.fn = "generate_user_goal" =>
              /\ ~ret[1].raised
              /\ ret[1].value.primary_objective = call.initial_query
              /\ Len(ret[1].value.success_criteria) = 1
              /\ Len(ret[1].value.specific_questions) = 1
        /\ call.fn = "generate_serp_queries" =>
              /\ ~ret[1].raised
              /\ Len(ret[1].value) = 1
              /\ ret[1].value[1].query = call.query
        /\ call.fn = "evaluate_goal_alignment" =>
              /\ ~ret[1].raised
              /\ ret[1].value.alignment_score = 5
              /\ ret[1].value.goal_achieved = FALSE
              /\ ret[1].value.continue_research = TRUE

\* C16: generate_user_goal pairs questions[i] with answers[i] for
\* i < min(len(questions), len(answers)): the Q&A text it sends holds exactly
\* that many pairs, in order, the surplus of the longer list is left out, and
\* the call does not raise whatever the two lengths are.
C16_ZipPairs ==
    (call.fn = "generate_user_goal" /\ ret # <<>>) =>
        LET qs == call.follow_up_questions
            as == call.follow_up_answers
            n  == IF Len(qs) <= Len(as) THEN Len(qs) ELSE Len(as)
            text == sent[1].qa_pairs
        IN  /\ ~ret[1].raised
            /\ IF n = 0
               THEN text = << <<>> >>
               ELSE /\ Len(text) = 2 * n
                    /\ \A i \in 1..n : /\ text[2 * i - 1] = <<"Q: ", qs[i]>>
                                        /\ text[2 * i] = <<"A: ", as[i]>>

C16_Witness ==
    /\ call.fn = "generate_user_goal"
    /\ Len(call.follow_up_questions) = 5
    /\ Len(call.follow_up_answers) = 3
    /\ ret # <<>>
    /\ Len(sent[1].qa_pairs) = 6

\* t is the first min(Len(s), n) elements of s, in order.
FirstOf(t, s, n) ==
    /\ Len(t) = (IF Len(s) <= n THEN Len(s) ELSE n)
    /\ \A i \in 1..Len(t) : t[i] = s[i]

\* C17: once its completion call is made, process_serp_result returns the
\* first min(len, num_learnings) learnings and the first
\* min(len, num_follow_up_questions) follow-up questions of the model output,
\* in model order; when the completion call fails it returns empty learnings
\* and follow-ups without raising.
C17_ExtractionPrefix ==
    (call.fn = "process_serp_result" /\ sent # <<>> /\ ret # <<>>) =>
        /\ ~ret[1].raised
        /\ IF call.completion.raised
           THEN /\ ret[1].value.learnings = <<>>
                /\ ret[1].value.followUpQuestions = <<>>
           ELSE /\ FirstOf(ret[1].value.learnings,
                           Get(call.completion.value, "learnings", <<>>),
                           call.num_learnings)
                /\ FirstOf(ret[1].value.followUpQuestions,
                           Get(call.completion.value, "followUpQuestions", <<>>),
                           call.num_follow_up_questions)

C17_Witness ==
    /\ call.fn = "process_serp_result"
    /\ ~call.completion.raised
    /\ call.num_learnings = NumLearnings
    /\ call.num_follow_up_questions = NumFollowUps
    /\ sent # <<>>
    /\ ret # <<>>
    /\ Len(ret[1].value.learnings) = NumLearnings
    /\ Len(call.completion.value.learnings) > NumLearnings
    /\ Len(ret[1].value.followUpQuestions) = NumFollowUps
    /\ Len(call.completion.value.followUpQuestions) > NumFollowUps

\* The empty string, as text.
EmptyText == << <<>> >>

\* Some line of the text holds the token.
TextHolds(text, token) ==
    \E i \in 1..Len(text) : \E j \in 1..Len(text[i]) : text[i][j] = token

SourcesLine(text, urls) ==
    IF urls = <<>> THEN Len(text) - 2 ELSE Len(text) - Len(urls) - 1

\* The text ends with: a SOURCES title line, a blank line, then one line
\* "- url" per element of urls, in order, and nothing more.
EndsWithSources(text, urls) ==
    LET k == SourcesLine(text, urls)
    IN  /\ k >= 1
        /\ text[k] = <<"SOURCES">>
        /\ text[k + 1] = <<>>
        /\ IF urls = <<>>
           THEN text[k + 2] = <<>>
           ELSE \A i \in 1..Len(urls) : text[k + 1 + i] = <<"- ", urls[i]>>

\* C19: on the success path and on the fallback path, the text returned by
\* write_final_report ends with a SOURCES section listing every element of
\* visited_urls, one per line, in the given order, with nothing after it.
C19_SourcesSection ==
    (call.fn = "write_final_report" /\ ret # <<>>) =>
        /\ ~ret[1].raised
        /\ EndsWithSources(ret[1].value, call.visited_urls)

C19_Witness ==
    /\ call.fn = "write_final_report"
    /\ ~call.completion.raised
    /\ "reportText" \in DOMAIN call.completion.value
    /\ call.visited_urls = <<"u1", "u2", "u1">>
    /\ ret # <<>>
    /\ Len(ret[1].value) > 5

\* The report body: the text before the blank line and the SOURCES title.
ReportBody(text, urls) == SubSeq(text, 1, SourcesLine(text, urls) - 2)

\* C20: when the completion call returns a mapping without report text (an
\* empty mapping or an empty reportText), the report body before the SOURCES
\* section is non-empty.
C20_EmptyReportBody ==
    (/\ call.fn = "write_final_report"
     /\ ~call.completion.raised
     /\ Get(call.completion.value, "reportText", EmptyText) = EmptyText
     /\ Get(call.completion.value, "reportMarkdown", EmptyText) = EmptyText
     /\ ret # <<>>) =>
        /\ ~ret[1].raised
        /\ ReportBody(ret[1].value, call.visited_urls) # EmptyText

\* A bullet line "- x".
IsBullet(line) == Len(line) = 2 /\ line[1] = "- "

\* C21: in the fallback report every learning appears exactly once in the
\* findings part, in input order, and every findings group (a run of
\* consecutive bullet lines) holds at most 10 learnings, for any number of
\* learnings, more than 40 included.
C21_FallbackChunks ==
    (/\ call.fn = "write_final_report"
     /\ call.completion.raised
     /\ ret # <<>>) =>
        LET body == ReportBody(ret[1].value, call.visited_urls)
        IN  /\ SelectSeq(body, IsBullet) = [i \in 1..Len(call.learnings) |-> <<"- ", call.learnings[i]>>]
            /\ \A i \in 1..(Len(body) - 10) : \E j \in i..(i + 10) : ~IsBullet(body[j])

\* C26 as stated: the result's goal_alignment_score and goal_achieved are
\* those of the last end-of-epoch evaluation, and goal_alignment_score is 0.0
\* only when no evaluation ever ran.
C26_ZeroOnlyWithoutEvaluation ==
    result # <<>> =>
        /\ calls.eval > 0 =>
              /\ calls.eval_by = "post"
              /\ result[1].goal_alignment_score = evaluation[1].alignment_score
              /\ result[1].goal_achieved = evaluation[1].goal_achieved
        /\ result[1].goal_alignment_score = 0 => calls.eval = 0

\* C26, amended: when an evaluation ran, the last evaluator call before the
\* result is an end-of-epoch one and the result's goal_alignment_score and
\* goal_achieved are that evaluation's (a score of 0.0 included); when none
\* ran, which needs max_epochs <= 0, the score is 0.0 and goal_achieved false.
C26_ScoreSource ==
    result # <<>> =>
        IF calls.eval = 0
        THEN /\ max_epochs <= 0
             /\ evaluation = <<>>
             /\ result[1].goal_alignment_score = 0
             /\ result[1].goal_achieved = FALSE
        ELSE /\ calls.eval_by = "post"
             /\ calls.eval_args[1].epoch = result[1].epochs_completed
             /\ result[1].goal_alignment_score = evaluation[1].alignment_score
             /\ result[1].goal_achieved = evaluation[1].goal_achieved

C26_Witness ==
    /\ result # <<>>
    /\ result[1].epochs_completed = 2
    /\ calls.eval = 3
    /\ calls.eval_by = "post"
    /\ result[1].goal_alignment_score = 9
    /\ result[1].goal_achieved = TRUE

\* The gather's step: the epoch's outcomes are appended.
GatherStep == pc = "gather" /\ pc' = "eval_post"

\* C27 as stated: until the loop exits no entry leaves the accumulators, and
\* an epoch appends to all_urls one entry for every URL occurrence its
\* queries' search results held and to all_learnings every extracted
\* learning occurrence.
C27_EveryOccurrence ==
    [][IF GatherStep
       THEN /\ all_urls' = all_urls \o Concat([i \in Tasks |-> task[i].found])
            /\ all_learnings' =
                 all_learnings \o Concat([i \in Tasks |-> task[i].outcome.value.learnings])
       ELSE /\ all_urls' = all_urls
            /\ all_learnings' = all_learnings]_vars

\* What a query adds to all_urls: nothing when its pipeline failed, else a
\* list holding each URL of its search result once, by first occurrence.
QueryUrls(d, t) ==
    IF t.error THEN d = <<>> ELSE FirstOccurrences(d, t.found)

\* C27, amended: until the loop exits no entry leaves the accumulators; an
\* epoch appends, query by query, the URLs of each query whose pipeline did
\* not fail, each URL once per query (a URL repeated within one query's
\* result is kept once, a URL returned by two queries or in two epochs is
\* kept for each), and every learning occurrence the extractor returned.
C27_DedupOnlyPerQuery ==
    [][IF GatherStep
       THEN /\ \E d \in [Tasks -> {task[i].outcome.value.urls : i \in Tasks}] :
                 /\ \A i \in Tasks : QueryUrls(d[i], task[i])
                 /\ all_urls' = all_urls \o Concat(d)
            /\ all_learnings' =
                 all_learnings \o Concat([i \in Tasks |-> task[i].outcome.value.learnings])
       ELSE /\ all_urls' = all_urls
            /\ all_learnings' = all_learnings]_vars

C27_Witness ==
    /\ pc = "eval_post"
    /\ epoch = 2
    /\ \E i, j \in Tasks :
         /\ i # j
         /\ ~task[i].error
         /\ Len(task[i].found) > Len(task[i].outcome.value.urls)
         /\ \E k \in 1..Len(task[j].found) : InSeq(task[j].found[k], task[i].found)
    /\ ~NoDuplicates(all_urls)
    /\ ~NoDuplicates(all_learnings)

\* The number of entries of s equal to x.
Count(x, s) == Cardinality({i \in 1..Len(s) : s[i] = x})

\* The queries of the current epoch whose outcome holds url.
QueriesWith(url) == {i \in Tasks : ~task[i].error /\ InSeq(url, task[i].found)}

\* C28: when two different queries of an epoch both return a URL, all_urls
\* holds it once per such query after the epoch's gather (twice for two
\* queries of the first epoch), and the returned visited_urls holds every
\* accumulated URL exactly once.
C28_SameEpochDuplicate ==
    /\ pc = "eval_post" =>
          \A i \in Tasks : \A k \in 1..Len(task[i].found) :
              LET url == task[i].found[k]
              IN  /\ Count(url, all_urls) >= Cardinality(QueriesWith(url))
                  /\ epoch = 1 => Count(url, all_urls) = Cardinality(QueriesWith(url))
    /\ result # <<>> =>
          \A k \in 1..Len(all_urls) : Count(all_urls[k], result[1].visited_urls) = 1

C28_Witness ==
    /\ pc = "eval_post"
    /\ epoch = 1
    /\ \E url \in {"u1", "u2"} :
         /\ Cardinality(QueriesWith(url)) = 2
         /\ Count(url, all_urls) = 2

\* The arguments of the last evaluator call.
LastEvaluation(index, learnings) ==
    calls.eval_args = <<[epoch |-> index, learnings |-> learnings]>>

\* C30: a session that completes k epochs calls the evaluator 2k - 1 times:
\* in epoch 1 once, after the gather; in an epoch e >= 2 once before the
\* planner call, with index e - 1 and the learnings accumulated through
\* epoch e - 1, and once after the epoch's outcomes were appended, with
\* index e and all the accumulated learnings, duplicates included.
C30_EvaluatorCalls ==
    /\ pc \in {"plan", "gather", "eval_post"} =>
          IF epoch = 1
          THEN calls.eval = 0
          ELSE /\ calls.eval = 2 * (epoch - 1)
               /\ calls.eval_by = "pre"
               /\ calls.eval_args[1].epoch = epoch - 1
               /\ pc # "eval_post" => LastEvaluation(epoch - 1, all_learnings)
    /\ (pc \in {"loop", "eval_pre", "finish", "done", "reported"} /\ epoch >= 1) =>
          /\ calls.eval = 2 * (IF pc = "eval_pre" THEN epoch - 1 ELSE epoch) - 1
          /\ calls.eval_by = "post"
          /\ LastEvaluation(IF pc = "eval_pre" THEN epoch - 1 ELSE epoch, all_learnings)
    /\ result # <<>> => calls.eval = 2 * result[1].epochs_completed - 1

C30_Witness ==
    /\ result # <<>>
    /\ result[1].epochs_completed = 3
    /\ calls.eval = 5
    /\ ~NoDuplicates(all_learnings)
    /\ LastEvaluation(3, all_learnings)

\* C22: get_client_response makes at most max_retries API calls; its waits
\* are 1, 2, 4, ... seconds, one after each rate-limit failure and before the
\* next call; a rate-limit failure of the last allowed call is raised; a call
\* that yields a content returns what the parser makes of that content.
C22_RateLimitRetry ==
    call.fn = "get_client_response" =>
        /\ client.api_calls <= call.max_retries
        /\ \A i \in 1..Len(client.waits) : client.waits[i] = 2 ^ (i - 1)
        /\ client.last.rate_limit => Len(client.waits) = client.api_calls
        /\ client.pc = "call" =>
              /\ client.api_calls = client.attempt
              /\ Len(client.waits) = client.attempt
              /\ client.attempt < call.max_retries
        /\ (ret # <<>> /\ client.last.rate_limit) =>
              /\ ret[1].raised
              /\ client.api_calls = call.max_retries
              /\ Len(client.waits) = call.max_retries
        /\ (ret # <<>> /\ client.last.k = "content") =>
              ret[1] = Ret(extract_json_from_response(client.last.text).value)

C22_Witness ==
    /\ call.fn = "get_client_response"
    /\ call.max_retries = DefaultRetries
    /\ ret # <<>> /\ ret[1].raised
    /\ client.last.rate_limit
    /\ client.waits = <<1, 2, 4>>
    /\ client.api_calls = 3

\* C23: an API error that is not a rate-limit error is raised only after
\* max_retries API calls were made.
C23_TransportErrorAfterBudget ==
    ( /\ call.fn = "get_client_response"
      /\ ret # <<>> /\ ret[1].raised
      /\ client.last.k = "error" /\ ~client.last.rate_limit )
        => client.api_calls = call.max_retries

\* C24: extract_json_from_response returns a mapping for every text and
\* never raises.
C24_ParserTotal ==
    (call.fn = "extract_json_from_response" /\ ret # <<>>) =>
        /\ ~ret[1].raised
        /\ ret[1].value.json = "object"

\* C25: for a fenced JSON object followed by a sentence the parser returns
\* exactly that object, by strategy 3 or strategy 4.
FencedObjectWithSentence(text) ==
    /\ Len(text) = 4
    /\ text[1].k = "fence"
    /\ text[2].k = "obj"
    /\ text[3] = Fence
    /\ text[4].k = "prose"

C25_FencedObjectExact ==
    ( /\ call.fn = "extract_json_from_response"
      /\ FencedObjectWithSentence(call.response_text)
      /\ ret # <<>> )
        => /\ ret[1].value = JObject(call.response_text[2].v)
           /\ ret[1].strategy \in {3, 4}

\* C29: an item of the retrieval service has content "" when every request
\* for its URL ended in a timeout, an exception or a status >= 400.
ScrapeFailed(outcomes) ==
    \A j \in 1..Len(outcomes) :
        \/ outcomes[j].k \in {"timeout", "exception"}
        \/ outcomes[j].status_code >= 400

C29_FailedScrapeEmptyContent ==
    (call.fn = "search" /\ ret # <<>>) =>
        \A i \in 1..Len(ret[1].value.data) :
            ScrapeFailed(call.web[ret[1].value.data[i].url])
                => ret[1].value.data[i].content = ""

\* C31: all_learnings and all_urls change only in the controller's step
\* after the gather, when every pipeline of the epoch is done; that step is
\* taken once per epoch, and the end-of-epoch evaluation is called only
\* after it.
InFlight == \E i \in Tasks : task[i].pc # "done"

C31_AccumulatorsFrame ==
    [][ /\ InFlight => UNCHANGED <<all_learnings, all_urls>>
        /\ (all_learnings' # all_learnings \/ all_urls' # all_urls) => GatherStep
        /\ GatherStep =>
              /\ ~InFlight
              /\ calls.extended = epoch - 1
              /\ calls'.extended = epoch
        /\ calls'.extended # calls.extended => GatherStep
        /\ (calls'.eval # calls.eval /\ calls'.eval_by = "post") =>
              /\ calls.extended = epoch
              /\ UNCHANGED <<all_learnings, all_urls>> ]_vars

C31_Witness ==
    /\ pc = "eval_post"
    /\ epoch = 2
    /\ calls.extended = 2
    /\ Len(all_learnings) >= 2
    /\ Len(all_urls) >= 2

\* C32: after an epoch's gather the accumulators end with the lists the
\* epoch's pipelines returned, taken in planned-query order whatever the
\* order in which the pipelines finished; the returned lists keep, of equal
\* entries, the earliest of the accumulators.
C32_GatherOrder ==
    /\ pc = "eval_post" =>
          LET urls == Concat([i \in Tasks |-> task[i].outcome.value.urls])
              learnings == Concat([i \in Tasks |-> task[i].outcome.value.learnings])
          IN  /\ Len(urls) <= Len(all_urls)
              /\ Suffix(all_urls, Len(urls)) = urls
              /\ Len(learnings) <= Len(all_learnings)
              /\ Suffix(all_learnings, Len(learnings)) = learnings
    /\ result # <<>> =>
          /\ FirstOccurrences(result[1].visited_urls, all_urls)
          /\ FirstOccurrences(result[1].learnings, all_learnings)

\* The second query's pipeline finished first and the two returned
\* different lists.
C32_Witness ==
    /\ pc = "eval_post"
    /\ Len(task) = 2
    /\ task[2].rank < task[1].rank
    /\ task[1].outcome.value.urls # <<>>
    /\ task[2].outcome.value.urls # <<>>
    /\ task[1].outcome.value.urls[1] # task[2].outcome.value.urls[1]
    /\ task[1].outcome.value.learnings # <<>>
    /\ task[2].outcome.value.learnings # <<>>
    /\ all_urls[1] = task[1].outcome.value.urls[1]

\* C33: every learning the controller hands to generate_serp_queries (the
\* most recent 10 of the accumulator, all of them when it holds fewer) is
\* part of the prompt the planner sends.
C33_PlannerSeesRecentTen ==
    (call.fn = "generate_serp_queries" /\ sent # <<>>) =>
        \A i \in 1..Len(call.learnings) : InSeq(call.learnings[i], sent[1].learnings)

\* C34: every non-empty URL a search call of the epoch returned is in
\* all_urls after the epoch's gather, whatever its content and whatever
\* became of the extraction, and every URL of all_urls is in the returned
\* visited_urls.
C34_EveryUrlRecorded ==
    /\ pc = "eval_post" =>
          \A i \in Tasks : \A k \in 1..Len(task[i].found) :
              InSeq(task[i].found[k], all_urls)
    /\ result # <<>> =>
          \A k \in 1..Len(all_urls) : InSeq(all_urls[k], result[1].visited_urls)

\* C35: a pipeline hands learnings to the gather only when its search
\* result held a document with non-empty content.
C35_LearningsNeedContent ==
    \A i \in Tasks :
        (task[i].pc = "sleep" /\ task[i].new_learnings # <<>>) =>
            \E k \in 1..Len(task[i].result) : task[i].result[k].content # ""

\* C36: between the construction of the global service and cleanup(),
\* manager.setup() is called at most once, however the concurrent search
\* calls interleave.
C36_SetupOnce == service.setups <= 1

\* C37: under fair scheduling, with every search and completion call
\* returning or raising, an epoch whose pipelines were launched reaches the
\* point where every pipeline is done and both semaphores are back at the
\* capacity they were created with (extraction 1, search concurrencyLimit),
\* and the gather then returns to the controller.
SemaphoresFull ==
    /\ api_semaphore = NewApiSemaphore(input.concurrency)
    /\ search_semaphore = NewSearchSemaphore(input.concurrency)

C37_PipelinesFinish ==
    /\ (pc = "gather") ~> (pc = "gather" /\ gather_returns /\ SemaphoresFull)
    /\ (pc = "gather") ~> (pc \in {"eval_post", "raised"} /\ SemaphoresFull)

\* Two or more pipelines are done, one after raising inside a critical
\* section and one after returning, and both semaphores are full.
C37_Witness ==
    /\ pc = "gather"
    /\ gather_returns
    /\ Len(task) >= 2
    /\ input.concurrency >= 2
    /\ \E i \in Tasks : task[i].error
    /\ \E i \in Tasks : ~task[i].error /\ task[i].outcome.value.learnings # <<>>
    /\ SemaphoresFull

\* C38: the loop is controlled by the epoch counter and by the goal_achieved
\* field of the end-of-epoch evaluation alone.  After an end-of-epoch
\* evaluation that returned, the loop is left exactly when that evaluation
\* reports goal_achieved, whatever its continue_research says; the while
\* test is reached with goal_achieved false and starts a further epoch
\* exactly when epoch < max_epochs; a start-of-epoch evaluation leaves
\* goal_achieved alone and is followed by the planning, and when it
\* reported goal_achieved the epoch's pipelines still run and their results
\* are appended.
PreEvaluationAchieved ==
    /\ pc = "plan"
    /\ epoch >= 2
    /\ evaluation # <<>>
    /\ evaluation[1].goal_achieved

C38_LoopControl ==
    /\ [][ /\ (pc = "eval_post" /\ pc' # "raised")
               => /\ (pc' = "finish") = evaluation'[1].goal_achieved
                  /\ (pc' = "loop") = ~evaluation'[1].goal_achieved
           /\ pc = "loop"
               => /\ ~goal_achieved
                  /\ (pc' \in {"plan", "eval_pre"}) = (epoch < max_epochs)
                  /\ (pc' = "finish") = ~(epoch < max_epochs)
           /\ (pc = "eval_pre" /\ pc' # "raised")
               => pc' = "plan" /\ goal_achieved' = goal_achieved ]_vars
    /\ PreEvaluationAchieved ~> (pc = "eval_post" /\ calls.extended = epoch)

\* In an epoch after the first, whose start-of-epoch evaluation reported
\* goal_achieved, the pipelines ran and their results were appended, and
\* goal_achieved is still false.
C38_Witness ==
    /\ pc = "eval_post"
    /\ epoch >= 2
    /\ evaluation # <<>>
    /\ evaluation[1].goal_achieved
    /\ ~goal_achieved
    /\ calls.eval_by = "pre"
    /\ calls.extended = epoch
    /\ all_learnings # <<>>

\* C39: a session whose follow-up questions or follow-up answers are missing
\* or empty makes no goal-builder call and runs with the trivial goal
\* (primary_objective = query, one criterion, one question); a session with
\* both lists non-empty makes exactly one goal-builder call, and that call
\* is made before the first epoch.
C39_GoalBuilderOnce ==
    /\ [](calls.goal <= 1)
    /\ []((pc # "start"
           /\ (input.follow_up_questions = <<>> \/ input.follow_up_answers = <<>>))
          => /\ calls.goal = 0
             /\ user_goal = TrivialGoal(input.query)
             /\ user_goal.primary_objective = input.query
             /\ Len(user_goal.success_criteria) = 1
             /\ Len(user_goal.specific_questions) = 1)
    /\ []((pc \notin {"start", "build_goal"}
           /\ input.follow_up_questions # <<>> /\ input.follow_up_answers # <<>>)
          => calls.goal = 1)
    /\ [][calls'.goal # calls.goal => epoch = 0 /\ epoch' = 0 /\ calls.plan = 0]_vars

\* A session with questions but no answers has finished its first epoch
\* with the trivial goal and without a goal-builder call.
C39_Witness ==
    /\ input.follow_up_questions # <<>>
    /\ input.follow_up_answers = <<>>
    /\ epoch = 1
    /\ pc = "eval_post"
    /\ calls.goal = 0
    /\ user_goal = TrivialGoal(input.query)

\* C40: once the depth is accepted and the questions are generated, the
\* replies present the generated questions one by one, in order, as
\* [Q1]..[Qn], never more than one ahead of the stored answers, and the
\* conversation has left ASKING_QUESTIONS exactly when n answers are stored,
\* n being the number of generated questions.
C40_QuestionsInOrder ==
    chat.state \in {"asking_questions", "researching", "complete"} =>
        /\ Len(chat.presented) <= Len(chat.generated)
        /\ \A i \in 1..Len(chat.presented) :
             chat.presented[i] = [index |-> i, body |-> <<chat.generated[i]>>]
        /\ Len(chat.answers) <= Len(chat.generated)
        /\ (chat.state = "asking_questions")
              = (Len(chat.answers) < Len(chat.generated))
        /\ chat.state = "asking_questions"
              => Len(chat.presented) = Len(chat.answers) + 1

====
